---- MODULE Spec2Model ----
(***************************************************************************)
(* State-machine model of the BETF tensor-factorization recommender        *)
(* (algo/betf/main.py): the command line (load_args), the driver's         *)
(* normalisation, BETF_Model.fit (entity maps, bias tables, the epoch      *)
(* loop with its convergence test) and BETF_Model.predict.  Smaller        *)
(* specifications call library functions on their own: TensorSpec the      *)
(* tensor scorer and its derivatives, SplitSpec split_votes of the         *)
(* modeling module, BiasSpec the bias correction of                        *)
(* util/bias_correction.py, SvmSpec the data files of algo/ltr/svmrank.py, *)
(* NewtonSpec and NewtonRun newton_raphson of algorithms/cap.               *)
(*                                                                         *)
(* Numbers.  A Python float is modelled as a fixed-point number: the       *)
(* integer x stands for the float x / UNIT, and every product and quotient *)
(* is rounded to the nearest unit, as every float operation rounds its     *)
(* result.  Sums and differences are exact.  float('inf') is INF.          *)
(***************************************************************************)
EXTENDS Integers, Sequences, FiniteSets, TLC

(***************************************************************************)
(* Bounds of the model.                                                    *)
(***************************************************************************)
\* largest number of training votes, and of votes in a predict batch
MaxVotes == 2
\* largest value given to the -i option (epoch cap)
MaxIter == 3
\* largest value given to the -k option (latent dimensions)
MaxK == 1
\* number of distinct states of the numpy random generator at fit time
NumSeeds == 2
\* the random draws of the factors are multiples of 1/GRID
GRID == 2048
\* the scorer on its own: largest number of latent dimensions, number of
\* rows of each factor matrix, number of factor states it is called in
MaxDim == 2
NumRows == 2
NumFactors == 4
\* largest number of votes handed to split_votes
MaxSplit == 4
\* bias correction: largest number of training instances, and of instances
\* in a test batch
MaxInst == 2
MaxBatch == 2
\* largest number of instances written to a RankSVM data file
MaxRank == 3
\* largest value of the argument n_iter of newton_raphson
MaxNewton == 3

(***************************************************************************)
(* Fixed-point arithmetic (the float operators of the source).             *)
(***************************************************************************)
\* the number of units in 1.0: the grid of the random draws, refined so that
\* the fifths of the vote scale are exact
UNIT == 5 * GRID

Abs(n) == IF n < 0 THEN -n ELSE n

\* n / d rounded to the nearest integer (halves upwards), d > 0
Round(n, d) == (2 * n + d) \div (2 * d)

\* the float nearest to the fraction n / d
Rat(n, d) == Round(n * UNIT, d)

Zero == 0
One == UNIT
IntR(n) == n * UNIT

RNeg(x) == -x
RAbs(x) == Abs(x)
RAdd(x, y) == x + y
RSub(x, y) == x - y
RMul(x, y) == Round(x * y, UNIT)
RDiv(x, y) == IF y < 0 THEN Round((-x) * UNIT, -y) ELSE Round(x * UNIT, y)
RLt(x, y) == x < y
RSq(x) == RMul(x, x)

\* sum of f[e] over the elements e of the finite set D
RECURSIVE RSum(_, _)
RSum(f, D) ==
  IF D = {} THEN Zero
  ELSE LET e == CHOOSE x \in D : TRUE IN RAdd(f[e], RSum(f, D \ {e}))

(***************************************************************************)
(* The universe the inputs are drawn from.  Votes and ratings are read in  *)
(* the original 0..5 scale; the driver normalises them before fit.         *)
(***************************************************************************)
ReviewIds == {"r1", "r2", "r3"}

\* the review pickle of the driver: review id -> review record
REVIEWS ==
  [r \in ReviewIds |->
     CASE r = "r1" -> [author |-> "a1", product |-> "p1", rating |-> IntR(4)]
       [] r = "r2" -> [author |-> "a2", product |-> "p2", rating |-> IntR(2)]
       [] r = "r3" -> [author |-> "a2", product |-> "p1", rating |-> IntR(5)]]

MkVote(u, a, r, x) == [voter |-> u, author |-> a, review |-> r, vote |-> IntR(x)]

\* candidate training votes; the last one names an author that is not the
\* author recorded in its review
TrainPool ==
  << MkVote("u1", "a1", "r1", 4), MkVote("u2", "a1", "r1", 3),
     MkVote("u2", "a2", "r2", 1), MkVote("u1", "a1", "r2", 5) >>

\* candidate votes to predict: a training vote, an unseen voter, a review
\* without training votes, a review id unknown to the review pickle
TestPool ==
  << MkVote("u1", "a1", "r1", 4), MkVote("u3", "a1", "r1", 2),
     MkVote("u2", "a2", "r2", 1), MkVote("u1", "a2", "r3", 5),
     MkVote("u1", "a1", "r9", 3) >>

\* the subsequences of pool with at most n elements
SubSeqs(pool, n) ==
  LET sel == {I \in SUBSET (1..Len(pool)) : Cardinality(I) <= n}
      RECURSIVE Pick(_, _)
      Pick(I, from) ==
        IF from > Len(pool) THEN <<>>
        ELSE IF from \in I THEN <<pool[from]>> \o Pick(I, from + 1)
        ELSE Pick(I, from + 1)
  IN  {Pick(I, 1) : I \in sel}

TrainSets == SubSeqs(TrainPool, MaxVotes)
Batches == SubSeqs(TestPool, MaxVotes)

\* the review lookups handed to fit for a training list: the whole pickle,
\* the pickle restricted to the reviews voted on (as the driver does), and
\* a pickle that lacks review r2
Restrict(f, D) == [r \in D |-> f[r]]
VotedIds(votes) == {votes[i].review : i \in DOMAIN votes}
Lookups(votes) ==
  { REVIEWS, Restrict(REVIEWS, VotedIds(votes) \cap ReviewIds),
    Restrict(REVIEWS, ReviewIds \ {"r2"}) }

\* command lines (argv[1:] as option/value pairs, values already lexed)
TolVals == {<<0, 1>>, <<1, 1000>>, <<2, 1>>}
CommandLines ==
  { << <<"-k", k>>, <<"-i", i>>, <<"-e", e>> >> \o b \o r
      : k \in 1..MaxK, i \in 0..MaxIter, e \in TolVals,
        b \in {<<>>, << <<"-b", "s">> >>, << <<"-b", "d">> >>},
        r \in {<<>>, << <<"-r", Zero>>, <<"-l", Rat(1, 2)>> >>} }
  \cup { << <<"-k", 1>>, <<"-b", "x">> >>, << <<"-z", 0>> >> }

BaseArgv == << <<"-k", 1>>, <<"-i", MaxIter>>, <<"-e", <<0, 1>>>> >>
CfgTrain == << TrainPool[1], TrainPool[2] >>
BaseTest == << TestPool[1], TestPool[2] >>

(***************************************************************************)
(* State.                                                                  *)
(***************************************************************************)
VARIABLES
  argv,          \* the command line
  globals,       \* the module globals _K, _ALPHA, _BETA, _TOL, _ITER, _BIAS, _UPDATE_BIAS
  train,         \* the driver's training votes
  train_reviews, \* the review lookup handed to fit
  test,          \* the votes handed to predict
  seed,          \* the state of the numpy random generator
  pc,            \* position of the program
  error,         \* the exception that ended the program, "" when none
  V, A, P, S,    \* latent factors of the model
  voter_map, author_map, product_map,
  voter_bias, review_bias, author_bias, product_bias,
  rating_avg, overall_mean,
  votes,         \* fit: its shuffled copy of the training votes
  reviews,       \* fit: the shuffled distinct reviews
  previous,      \* fit: objective of the previous epoch
  alpha,         \* fit: learning rate
  it,            \* fit: epoch index
  idx,           \* position inside the current pass or batch
  value,         \* fit: objective of the last finished epoch
  epochs,        \* fit: number of epochs completed
  fit_state,     \* fit: INITIALIZED, ITERATING, CONVERGED, MAX_ITER_REACHED, ABORTED
  pred,          \* predict: the predictions made so far
  cold_start,    \* predict: the cold-start counter
  ratio,         \* predict: the cold-start ratio it reports
  out,           \* the driver's predictions after rescaling
  shuffles,      \* position of the random generator: calls of shuffle so far
  call,          \* a library call on its own: the function and its arguments
  ret,           \* a library call on its own: the values it returned
  locals         \* a library call on its own: the local variables of the function

vars ==
  << argv, globals, train, train_reviews, test, seed, pc, error, V, A, P, S,
     voter_map, author_map, product_map, voter_bias, review_bias, author_bias,
     product_bias, rating_avg, overall_mean, votes, reviews, previous, alpha,
     it, idx, value, epochs, fit_state, pred, cold_start, ratio, out,
     shuffles, call, ret, locals >>

modelVars ==
  << V, A, P, S, voter_map, author_map, product_map, voter_bias, review_bias,
     author_bias, product_bias, rating_avg, overall_mean >>
fitVars == << votes, reviews, previous, alpha, it, value, epochs, fit_state >>
predictVars == << pred, cold_start, ratio, out >>
inputVars == << argv, train, train_reviews, test, seed >>
callVars == << call, ret, locals >>

None == <<>>
INF == 2147483647

\* module globals as the source sets them (lines 40-46)
Defaults ==
  [K |-> 5, ITER |-> 10, ALPHA |-> One, BETA |-> Rat(1, 10),
   TOL |-> <<1, 1000000>>, BIAS |-> "s", UPDATE_BIAS |-> FALSE]

\* the input scenarios explored: the command line and the generator state
\* vary over a fixed data set; the data, the lookup and the predict batch
\* vary under a fixed command line and generator state
Scenario ==
  \/ train = CfgTrain /\ train_reviews = REVIEWS
  \/ argv = BaseArgv /\ seed = 1

Init ==
  /\ argv \in CommandLines
  /\ train \in TrainSets
  /\ train_reviews \in Lookups(train)
  /\ test = <<>>
  /\ seed \in 1..NumSeeds
  /\ Scenario
  /\ globals = Defaults
  /\ pc = "main"
  /\ error = ""
  /\ V = None /\ A = None /\ P = None /\ S = None
  /\ voter_map = None /\ author_map = None /\ product_map = None
  /\ voter_bias = None /\ review_bias = None
  /\ author_bias = None /\ product_bias = None
  /\ rating_avg = None /\ overall_mean = None
  /\ votes = <<>> /\ reviews = <<>>
  /\ previous = INF /\ alpha = None
  /\ it = 0 /\ idx = 0 /\ value = None /\ epochs = 0
  /\ fit_state = "INITIALIZED"
  /\ pred = <<>> /\ cold_start = 0 /\ ratio = None /\ out = <<>>
  /\ shuffles = 0
  /\ call = None /\ ret = None /\ locals = None

(***************************************************************************)
(* load_args (lines 52-87).                                                *)
(***************************************************************************)
\* one turn of the while loop: the effect of one option on the globals.
\* The assignment to _UPDATE_BIAS in line 81 has no global declaration, so
\* it binds a local name and the module global keeps its value.
ApplyArg(g, a) ==
  CASE a[1] = "-k" -> [g EXCEPT !.K = a[2]]
    [] a[1] = "-l" -> [g EXCEPT !.ALPHA = a[2]]
    [] a[1] = "-r" -> [g EXCEPT !.BETA = a[2]]
    [] a[1] = "-e" -> [g EXCEPT !.TOL = a[2]]
    [] a[1] = "-i" -> [g EXCEPT !.ITER = a[2]]
    [] a[1] = "-b" -> [g EXCEPT !.BIAS = a[2]]
    [] OTHER -> g

\* the options the loop accepts; any other one prints the usage and exits
ArgOk(a) ==
  \/ a[1] \in {"-k", "-l", "-r", "-e", "-i"}
  \/ a[1] = "-b" /\ a[2] \in {"s", "d"}

RECURSIVE ApplyArgs(_, _)
ApplyArgs(g, args) ==
  IF args = <<>> \/ ~ArgOk(Head(args)) THEN g
  ELSE ApplyArgs(ApplyArg(g, Head(args)), Tail(args))

LoadArgs ==
  /\ pc = "main"
  /\ globals' = ApplyArgs(globals, argv)
  /\ IF \A i \in DOMAIN argv : ArgOk(argv[i])
     THEN pc' = "loaded" /\ error' = error
     ELSE pc' = "exit" /\ error' = "usage"
  /\ UNCHANGED << inputVars, callVars, shuffles,
                  modelVars, fitVars, predictVars, idx >>

(***************************************************************************)
(* The driver normalises the training votes and the ratings of the         *)
(* training reviews to [0,1] (lines 484-487).                              *)
(***************************************************************************)
SCALE == 5

Normalize ==
  /\ pc = "loaded"
  /\ train' = [i \in DOMAIN train |->
                 [train[i] EXCEPT !.vote = RDiv(@, IntR(SCALE))]]
  /\ train_reviews' = [r \in DOMAIN train_reviews |->
                 [train_reviews[r] EXCEPT !.rating = RDiv(@, IntR(SCALE))]]
  /\ pc' = "fit"
  /\ UNCHANGED << argv, test, seed, callVars, shuffles,
                  globals, error, modelVars, fitVars,
                  predictVars, idx >>

(***************************************************************************)
(* Library functions of the source.                                        *)
(***************************************************************************)
\* util.aux.sigmoid: the logistic link, increasing from 0 to 1 with value
\* 1/2 at 0, here 1/2 + x / (2 (1 + |x|))
sigmoid(x) ==
  RAdd(Rat(1, 2), RDiv(x, RMul(IntR(2), RAdd(One, RAbs(x)))))

\* util.aux.sigmoid_der1: the logistic derivative sigmoid(x) (1 - sigmoid(x))
sigmoid_der1(x) == RMul(sigmoid(x), RSub(One, sigmoid(x)))

\* math.sqrt of the integer n: the largest float whose square is at most n
RECURSIVE Root(_, _, _)
Root(m, lo, hi) ==
  IF hi - lo <= 1 THEN lo
  ELSE LET mid == (lo + hi) \div 2
       IN  IF mid * mid <= m THEN Root(m, mid, hi) ELSE Root(m, lo, mid)

sqrt(n) == Root(n * UNIT * UNIT, 0, n * UNIT + 1)

\* numpy.random.uniform(0, 1): the entry drawn at position (i, j, k) of
\* array number m when the generator is in state sd, a grid point of (0,1)
Draw(sd, m, i, j, k) ==
  Rat(1 + (((sd * 5 + m * 3 + i * 7 + j * 11 + k * 13) * 37) % (GRID - 1)),
      GRID)

\* random.shuffle: the orders a list can be left in
Perms(seq) ==
  LET n == Len(seq)
      bij == {f \in [1..n -> 1..n] : \A i, j \in 1..n : f[i] = f[j] => i = j}
  IN  {[i \in 1..n |-> seq[f[i]]] : f \in bij}

\* enumerate(set): the ways a set can be numbered 0..n-1 by its iteration order
Enumerations(D) ==
  LET n == Cardinality(D)
  IN  {f \in [D -> 0..(n - 1)] : \A x, y \in D : f[x] = f[y] => x = y}

(***************************************************************************)
(* BETF_Model._initialize_matrices (lines 129-141).                        *)
(***************************************************************************)
Voters(vs) == {vs[i].voter : i \in DOMAIN vs}
\* mutant: the authors of the reviews of the lookup are added (the union
\* left commented out in line 131)
AuthorsWithReviews(vs) ==
  {vs[i].author : i \in DOMAIN vs}
    \cup {train_reviews[r].author : r \in DOMAIN train_reviews}

Authors(vs) == {vs[i].author : i \in DOMAIN vs}
Products(vs, rd) == {rd[vs[i].review].product : i \in DOMAIN vs}

\* line 132 raises KeyError when a vote names a review the lookup lacks
MissingReview(vs, rd) == \E i \in DOMAIN vs : vs[i].review \notin DOMAIN rd

Matrix(sd, m, n, k) ==
  [i \in 0..(n - 1) |-> [x \in 0..(k - 1) |-> Draw(sd, m, i, x, 0)]]
Tensor(sd, k) ==
  [x \in 0..(k - 1) |-> [y \in 0..(k - 1) |-> [z \in 0..(k - 1) |->
     Draw(sd, 4, x, y, z)]]]

\* line 141
OverallMean(vs) ==
  RDiv(RSum([i \in DOMAIN vs |-> vs[i].vote], DOMAIN vs), IntR(Len(vs)))

(***************************************************************************)
(* BETF_Model._calculate_vote_bias (lines 143-168).                        *)
(***************************************************************************)
\* mutant: a bias is kept for every user of the votes, the authors included
VoterBiasAllUsers(vs, mean) ==
  [u \in Voters(vs) \cup Authors(vs) |->
     LET mine == {i \in DOMAIN vs : vs[i].voter = u}
     IN  IF mine = {} THEN Zero
         ELSE RDiv(RSum([i \in DOMAIN vs |-> RSub(vs[i].vote, mean)], mine),
                   IntR(Cardinality(mine)))]

VoterBias(vs, mean) ==
  [u \in Voters(vs) |->
     LET mine == {i \in DOMAIN vs : vs[i].voter = u}
     IN  RDiv(RSum([i \in DOMAIN vs |-> RSub(vs[i].vote, mean)], mine),
              IntR(Cardinality(mine)))]

\* mutant: the voter bias is not removed from the residual
ReviewBiasNoVoter(vs, mean, vb) ==
  [r \in VotedIds(vs) |->
     LET mine == {i \in DOMAIN vs : vs[i].review = r}
     IN  RDiv(RSum([i \in DOMAIN vs |-> RSub(vs[i].vote, mean)], mine),
              IntR(Cardinality(mine)))]

ReviewBias(vs, mean, vb) ==
  [r \in VotedIds(vs) |->
     LET mine == {i \in DOMAIN vs : vs[i].review = r}
     IN  RDiv(RSum([i \in DOMAIN vs |->
                      RSub(RSub(vs[i].vote, mean), vb[vs[i].voter])], mine),
              IntR(Cardinality(mine)))]

(***************************************************************************)
(* BETF_Model._calculate_rating_bias (lines 170-200).                      *)
(***************************************************************************)
RatingAvg(rd) ==
  RDiv(RSum([r \in DOMAIN rd |-> rd[r].rating], DOMAIN rd),
       IntR(Cardinality(DOMAIN rd)))

AuthorBias(rd, avg) ==
  [a \in {rd[r].author : r \in DOMAIN rd} |->
     LET mine == {r \in DOMAIN rd : rd[r].author = a}
     IN  RDiv(RSum([r \in DOMAIN rd |-> RSub(rd[r].rating, avg)], mine),
              IntR(Cardinality(mine)))]

\* mutant: the author bias is not removed from the rating residual
ProductBiasNoAuthor(rd, avg, ab) ==
  [p \in {rd[r].product : r \in DOMAIN rd} |->
     LET mine == {r \in DOMAIN rd : rd[r].product = p}
     IN  RDiv(RSum([r \in DOMAIN rd |-> RSub(rd[r].rating, avg)], mine),
              IntR(Cardinality(mine)))]

ProductBias(rd, avg, ab) ==
  [p \in {rd[r].product : r \in DOMAIN rd} |->
     LET mine == {r \in DOMAIN rd : rd[r].product = p}
     IN  RDiv(RSum([r \in DOMAIN rd |->
                      RSub(RSub(rd[r].rating, avg), ab[rd[r].author])], mine),
              IntR(Cardinality(mine)))]

(***************************************************************************)
(* BETF_Model.fit, up to the epoch loop (lines 300-310).                   *)
(***************************************************************************)
\* a vote names a review the lookup lacks: line 132 raises KeyError before
\* any field of the model is assigned
FitKeyError ==
  /\ pc = "fit"
  /\ MissingReview(train, train_reviews)
  /\ pc' = "aborted"
  /\ error' = "KeyError"
  /\ fit_state' = "ABORTED"
  /\ UNCHANGED << inputVars, callVars, shuffles,
                  globals, modelVars, votes, reviews, previous,
                  alpha, it, value, epochs, predictVars, idx >>

\* mutant: the mean of an empty list is taken to be 0 and fit goes on
FitEmptyGuarded ==
  /\ pc = "fit"
  /\ train = <<>>
  /\ voter_map' = <<>> /\ author_map' = <<>> /\ product_map' = <<>>
  /\ V' = <<>> /\ A' = <<>> /\ P' = <<>>
  /\ S' = Tensor(seed, globals.K)
  /\ overall_mean' = Zero
  /\ pc' = "epoch"
  /\ UNCHANGED << inputVars, callVars, shuffles,
                  globals, error, voter_bias, review_bias,
                  author_bias, product_bias, rating_avg, votes, reviews,
                  previous, alpha, it, value, epochs, fit_state, predictVars,
                  idx >>

\* an empty training list: the maps and the factors are built (empty), then
\* line 141 divides by len(votes) = 0
FitEmpty ==
  /\ pc = "fit"
  /\ train = <<>>
  /\ voter_map' = <<>> /\ author_map' = <<>> /\ product_map' = <<>>
  /\ V' = <<>> /\ A' = <<>> /\ P' = <<>>
  /\ S' = Tensor(seed, globals.K)
  /\ pc' = "aborted"
  /\ error' = "ZeroDivisionError"
  /\ fit_state' = "ABORTED"
  /\ UNCHANGED << inputVars, callVars, shuffles,
                  globals, voter_bias, review_bias, author_bias,
                  product_bias, rating_avg, overall_mean, votes, reviews,
                  previous, alpha, it, value, epochs, predictVars, idx >>

\* mutant: fit shuffles the list it was given
CallerVotesAliased(list, shuffled) == shuffled

\* line 300, votes = votes[:]: fit works on a shallow copy, so the shuffle of
\* line 305 reorders the copy and the caller's list stays as it was
CallerVotes(list, shuffled) == list

\* the records of the reviews with the given ids, in every order
Orders(ids, rd) ==
  {[i \in 1..Cardinality(ids) |-> rd[CHOOSE r \in ids : e[r] = i - 1]] :
     e \in Enumerations(ids)}

\* mutant: the list of line 304, every review of the lookup, is kept
ReviewOrdersWholeLookup(vs, rd) == Orders(DOMAIN rd, rd)

\* lines 306-308: the distinct reviews the votes are cast on, shuffled
ReviewOrders(vs, rd) == Orders(VotedIds(vs), rd)

FitSetup ==
  /\ pc = "fit"
  /\ train # <<>>
  /\ ~MissingReview(train, train_reviews)
  /\ voter_map' \in Enumerations(Voters(train))
  /\ author_map' \in Enumerations(Authors(train))
  /\ product_map' \in Enumerations(Products(train, train_reviews))
  /\ V' = Matrix(seed, 1, Cardinality(Voters(train)), globals.K)
  /\ A' = Matrix(seed, 2, Cardinality(Authors(train)), globals.K)
  /\ P' = Matrix(seed, 3, Cardinality(Products(train, train_reviews)), globals.K)
  /\ S' = Tensor(seed, globals.K)
  /\ overall_mean' = OverallMean(train)
  /\ voter_bias' = VoterBias(train, overall_mean')
  /\ review_bias' = ReviewBias(train, overall_mean', voter_bias')
  /\ rating_avg' = RatingAvg(train_reviews)
  /\ author_bias' = AuthorBias(train_reviews, rating_avg')
  /\ product_bias' = ProductBias(train_reviews, rating_avg', author_bias')
  /\ votes' \in Perms(train)
  /\ train' = CallerVotes(train, votes')
  /\ shuffles' = shuffles + 2
  /\ reviews' \in ReviewOrders(train, train_reviews)
  /\ previous' = INF
  /\ alpha' = globals.ALPHA
  /\ it' = 0
  /\ pc' = "epoch"
  /\ UNCHANGED << argv, train_reviews, test, seed, callVars, globals, error,
                  value, epochs, fit_state, predictVars, idx >>

(***************************************************************************)
(* The tensor scorer (lines 202-288).  F is the factor state               *)
(* [V, A, P, S], k the number of latent dimensions _K.                     *)
(***************************************************************************)
Dims(k) == 0..(k - 1)

\* mutant: the author row is indexed by x, the index of the voter row
tensor_dot_shared_index(F, k, v, a, p) ==
  LET T == Dims(k) \X Dims(k) \X Dims(k)
  IN  RSum([t \in T |->
              RMul(RMul(RMul(F.S[t[1]][t[2]][t[3]], F.V[v][t[1]]),
                        F.A[a][t[1]]), F.P[p][t[3]])], T)

tensor_dot(F, k, v, a, p) ==
  LET T == Dims(k) \X Dims(k) \X Dims(k)
  IN  RSum([t \in T |->
              RMul(RMul(RMul(F.S[t[1]][t[2]][t[3]], F.V[v][t[1]]),
                        F.A[a][t[2]]), F.P[p][t[3]])], T)

tensor_dot_der_v(F, k, a, p) ==
  [d \in Dims(k) |->
     LET T == Dims(k) \X Dims(k)
     IN  RSum([t \in T |->
                 RMul(RMul(F.S[d][t[1]][t[2]], F.A[a][t[1]]), F.P[p][t[2]])], T)]

\* mutant: the derivative runs over the first axis of S instead of the second
tensor_dot_der_a_first_axis(F, k, v, p) ==
  [d \in Dims(k) |->
     LET T == Dims(k) \X Dims(k)
     IN  RSum([t \in T |->
                 RMul(RMul(F.S[d][t[1]][t[2]], F.V[v][t[1]]), F.P[p][t[2]])], T)]

tensor_dot_der_a(F, k, v, p) ==
  [d \in Dims(k) |->
     LET T == Dims(k) \X Dims(k)
     IN  RSum([t \in T |->
                 RMul(RMul(F.S[t[1]][d][t[2]], F.V[v][t[1]]), F.P[p][t[2]])], T)]

tensor_dot_der_p(F, k, v, a) ==
  [d \in Dims(k) |->
     LET T == Dims(k) \X Dims(k)
     IN  RSum([t \in T |->
                 RMul(RMul(F.S[t[1]][t[2]][d], F.V[v][t[1]]), F.A[a][t[2]])], T)]

tensor_dot_der_s(F, k, v, a, p) ==
  [x \in Dims(k) |-> [y \in Dims(k) |-> [z \in Dims(k) |->
     RMul(RMul(F.V[v][x], F.A[a][y]), F.P[p][z])]]]

\* A[a,:].dot(P[p,:])
Dot(F, k, a, p) == RSum([d \in Dims(k) |-> RMul(F.A[a][d], F.P[p][d])], Dims(k))

Factors == [V |-> V, A |-> A, P |-> P, S |-> S]

(***************************************************************************)
(* BETF_Model.fit: the epoch loop (lines 311-411).                         *)
(***************************************************************************)
\* the head of the for loop (lines 311-312): the next epoch starts with the
\* learning rate divided by sqrt(it+1), or the loop is exhausted
EpochStart ==
  /\ pc = "epoch"
  /\ it < globals.ITER
  /\ alpha' = RDiv(alpha, sqrt(it + 1))
  /\ fit_state' = "ITERATING"
  /\ pc' = "vote_pass"
  /\ idx' = 1
  /\ UNCHANGED << inputVars, callVars, shuffles,
                  globals, error, modelVars, votes, reviews,
                  previous, it, value, epochs, predictVars >>

\* mutant: the loop runs one epoch too few before it gives up
LoopExhaustedEarly ==
  /\ pc = "epoch"
  /\ it + 1 >= globals.ITER
  /\ fit_state' = "MAX_ITER_REACHED"
  /\ pc' = "fitted"
  /\ UNCHANGED << inputVars, callVars, shuffles,
                  globals, error, modelVars, votes, reviews,
                  previous, alpha, it, value, epochs, predictVars, idx >>

LoopExhausted ==
  /\ pc = "epoch"
  /\ it >= globals.ITER
  /\ fit_state' = "MAX_ITER_REACHED"
  /\ pc' = "fitted"
  /\ UNCHANGED << inputVars, callVars, shuffles,
                  globals, error, modelVars, votes, reviews,
                  previous, alpha, it, value, epochs, predictVars, idx >>

\* the pre-sigmoid vote prediction (lines 322-323, 373-374, 444-445)
VotePred(F, k, vote, rd) ==
  LET v == voter_map[vote.voter]
      a == author_map[vote.author]
      p == product_map[rd[vote.review].product]
  IN  RAdd(RAdd(RAdd(overall_mean, voter_bias[vote.voter]),
                review_bias[vote.review]), tensor_dot(F, k, v, a, p))

\* the pre-sigmoid rating prediction (lines 343-344, 381-382)
RatingPred(F, k, review) ==
  LET a == author_map[review.author]
      p == product_map[review.product]
  IN  RAdd(RAdd(RAdd(rating_avg, author_bias[review.author]),
                product_bias[review.product]), Dot(F, k, a, p))

\* row - al * (g * der), entry by entry
RowStep(row, al, g, der) ==
  [d \in DOMAIN row |-> RSub(row[d], RMul(al, RMul(g, der[d])))]

\* mutant: each new value is written as soon as it is computed, so the
\* derivative for A[a] sees the new V[v], the one for P[p] the new V[v] and
\* A[a], and the one for S the three new rows
VoteUpdateInTurn(F, k, al, vote, rd) ==
  LET v == voter_map[vote.voter]
      a == author_map[vote.author]
      p == product_map[rd[vote.review].product]
      prd == VotePred(F, k, vote, rd)
      err == RSub(sigmoid(prd), vote.vote)
      g == RMul(err, sigmoid_der1(prd))
      F1 == [F EXCEPT !.V[v] = RowStep(F.V[v], al, g,
                                       tensor_dot_der_v(F, k, a, p))]
      F2 == [F1 EXCEPT !.A[a] = RowStep(F1.A[a], al, g,
                                        tensor_dot_der_a(F1, k, v, p))]
      F3 == [F2 EXCEPT !.P[p] = RowStep(F2.P[p], al, g,
                                        tensor_dot_der_p(F2, k, v, a))]
      der_s == tensor_dot_der_s(F3, k, v, a, p)
  IN  [F3 EXCEPT !.S = [x \in Dims(k) |-> [y \in Dims(k) |-> [z \in Dims(k) |->
                          RSub(F.S[x][y][z],
                               RMul(al, RMul(g, der_s[x][y][z])))]]]]

\* the factors after the gradient step of one vote (lines 315-337): the four
\* new values are computed from F, then written
VoteUpdate(F, k, al, vote, rd) ==
  LET v == voter_map[vote.voter]
      a == author_map[vote.author]
      p == product_map[rd[vote.review].product]
      prd == VotePred(F, k, vote, rd)
      err == RSub(sigmoid(prd), vote.vote)
      g == RMul(err, sigmoid_der1(prd))
      new_V == RowStep(F.V[v], al, g, tensor_dot_der_v(F, k, a, p))
      new_A == RowStep(F.A[a], al, g, tensor_dot_der_a(F, k, v, p))
      new_P == RowStep(F.P[p], al, g, tensor_dot_der_p(F, k, v, a))
      der_s == tensor_dot_der_s(F, k, v, a, p)
      new_S == [x \in Dims(k) |-> [y \in Dims(k) |-> [z \in Dims(k) |->
                  RSub(F.S[x][y][z],
                       RMul(al, RMul(g, der_s[x][y][z])))]]]
  IN  [V |-> [F.V EXCEPT ![v] = new_V],
       A |-> [F.A EXCEPT ![a] = new_A],
       P |-> [F.P EXCEPT ![p] = new_P],
       S |-> new_S]

VoteStep ==
  /\ pc = "vote_pass"
  /\ idx <= Len(votes)
  /\ LET F == VoteUpdate(Factors, globals.K, alpha, votes[idx], train_reviews)
     IN  V' = F.V /\ A' = F.A /\ P' = F.P /\ S' = F.S
  /\ idx' = IF idx = Len(votes) THEN 1 ELSE idx + 1
  /\ pc' = IF idx = Len(votes) THEN "rating_pass" ELSE "vote_pass"
  /\ UNCHANGED << inputVars, callVars, shuffles,
                  globals, error, voter_map, author_map,
                  product_map, voter_bias, review_bias, author_bias,
                  product_bias, rating_avg, overall_mean, fitVars, predictVars >>

\* mutant: A[a] is written before the new P[p] is computed from it
RatingUpdateInTurn(F, k, al, review) ==
  LET a == author_map[review.author]
      p == product_map[review.product]
      prd == RatingPred(F, k, review)
      err == RSub(sigmoid(prd), review.rating)
      g == RMul(err, sigmoid_der1(prd))
      new_A == RowStep(F.A[a], al, g, F.P[p])
      new_P == RowStep(F.P[p], al, g, new_A)
  IN  [F EXCEPT !.A[a] = new_A, !.P[p] = new_P]

\* the factors after the gradient step of one review (lines 339-350)
RatingUpdate(F, k, al, review) ==
  LET a == author_map[review.author]
      p == product_map[review.product]
      prd == RatingPred(F, k, review)
      err == RSub(sigmoid(prd), review.rating)
      g == RMul(err, sigmoid_der1(prd))
      new_A == RowStep(F.A[a], al, g, F.P[p])
      new_P == RowStep(F.P[p], al, g, F.A[a])
  IN  [F EXCEPT !.A[a] = new_A, !.P[p] = new_P]

\* lines 341-342: the review's author and product are looked up in the maps
RatingKeysOk(review) ==
  /\ review.author \in DOMAIN author_map
  /\ review.product \in DOMAIN product_map

RatingStep ==
  /\ pc = "rating_pass"
  /\ idx <= Len(reviews)
  /\ RatingKeysOk(reviews[idx])
  /\ LET F == RatingUpdate(Factors, globals.K, alpha, reviews[idx])
     IN  V' = F.V /\ A' = F.A /\ P' = F.P /\ S' = F.S
  /\ idx' = IF idx = Len(reviews) THEN 1 ELSE idx + 1
  /\ pc' = IF idx = Len(reviews) THEN "regularize" ELSE "rating_pass"
  /\ UNCHANGED << inputVars, callVars, shuffles,
                  globals, error, voter_map, author_map,
                  product_map, voter_bias, review_bias, author_bias,
                  product_bias, rating_avg, overall_mean, fitVars, predictVars >>

\* line 341 raises KeyError for a review whose author is in no training vote
RatingKeyError ==
  /\ pc = "rating_pass"
  /\ idx <= Len(reviews)
  /\ ~RatingKeysOk(reviews[idx])
  /\ pc' = "aborted"
  /\ error' = "KeyError"
  /\ fit_state' = "ABORTED"
  /\ UNCHANGED << inputVars, callVars, shuffles,
                  globals, modelVars, votes, reviews, previous,
                  alpha, it, value, epochs, predictVars, idx >>

\* x - alpha * beta * x
Decay(al, beta, x) == RSub(x, RMul(RMul(al, beta), x))

\* mutant: the biases decay with the factors whatever the bias mode
RegularizeBiasAlways ==
  /\ pc = "regularize"
  /\ V' = [i \in DOMAIN V |-> [d \in DOMAIN V[i] |->
             Decay(alpha, globals.BETA, V[i][d])]]
  /\ A' = [i \in DOMAIN A |-> [d \in DOMAIN A[i] |->
             Decay(alpha, globals.BETA, A[i][d])]]
  /\ P' = [i \in DOMAIN P |-> [d \in DOMAIN P[i] |->
             Decay(alpha, globals.BETA, P[i][d])]]
  /\ S' = [x \in DOMAIN S |-> [y \in DOMAIN S[x] |-> [z \in DOMAIN S[x][y] |->
             Decay(alpha, globals.BETA, S[x][y][z])]]]
  /\ IF TRUE
     THEN /\ voter_bias' = [u \in DOMAIN voter_bias |->
                              Decay(alpha, globals.BETA, voter_bias[u])]
          /\ author_bias' = [a \in DOMAIN author_bias |->
                              Decay(alpha, globals.BETA, author_bias[a])]
          /\ product_bias' = [p \in DOMAIN product_bias |->
                              Decay(alpha, globals.BETA, product_bias[p])]
     ELSE UNCHANGED << voter_bias, author_bias, product_bias >>
  /\ pc' = "objective"
  /\ UNCHANGED << inputVars, callVars, shuffles,
                  globals, error, voter_map, author_map,
                  product_map, review_bias, rating_avg, overall_mean, fitVars,
                  predictVars, idx >>

\* lines 351-363: the decay of the factors and, when _UPDATE_BIAS is set, of
\* the voter, author and product biases
Regularize ==
  /\ pc = "regularize"
  /\ V' = [i \in DOMAIN V |-> [d \in DOMAIN V[i] |->
             Decay(alpha, globals.BETA, V[i][d])]]
  /\ A' = [i \in DOMAIN A |-> [d \in DOMAIN A[i] |->
             Decay(alpha, globals.BETA, A[i][d])]]
  /\ P' = [i \in DOMAIN P |-> [d \in DOMAIN P[i] |->
             Decay(alpha, globals.BETA, P[i][d])]]
  /\ S' = [x \in DOMAIN S |-> [y \in DOMAIN S[x] |-> [z \in DOMAIN S[x][y] |->
             Decay(alpha, globals.BETA, S[x][y][z])]]]
  /\ IF globals.UPDATE_BIAS
     THEN /\ voter_bias' = [u \in DOMAIN voter_bias |->
                              Decay(alpha, globals.BETA, voter_bias[u])]
          /\ author_bias' = [a \in DOMAIN author_bias |->
                              Decay(alpha, globals.BETA, author_bias[a])]
          /\ product_bias' = [p \in DOMAIN product_bias |->
                              Decay(alpha, globals.BETA, product_bias[p])]
     ELSE UNCHANGED << voter_bias, author_bias, product_bias >>
  /\ pc' = "objective"
  /\ UNCHANGED << inputVars, callVars, shuffles,
                  globals, error, voter_map, author_map,
                  product_map, review_bias, rating_avg, overall_mean, fitVars,
                  predictVars, idx >>

\* lines 364-383: the squared errors of all votes and all distinct reviews
SSE(F, k) ==
  RAdd(RSum([i \in DOMAIN votes |->
               RSq(RSub(votes[i].vote,
                        sigmoid(VotePred(F, k, votes[i], train_reviews))))],
            DOMAIN votes),
       RSum([i \in DOMAIN reviews |->
               RSq(RSub(reviews[i].rating,
                        sigmoid(RatingPred(F, k, reviews[i]))))],
            DOMAIN reviews))

\* lines 385-404: beta times the squares of every factor entry and, when
\* _UPDATE_BIAS is set, of every voter, author and product bias
Penalty(F, k, beta, upd) ==
  LET sq(f, D) == RSum([e \in D |-> RMul(beta, RSq(f[e]))], D)
      rows(M) == RSum([i \in DOMAIN M |-> sq(M[i], Dims(k))], DOMAIN M)
      T == Dims(k) \X Dims(k) \X Dims(k)
      core == RSum([t \in T |-> RMul(beta, RSq(F.S[t[1]][t[2]][t[3]]))], T)
      bias == IF upd
              THEN RAdd(RAdd(sq(voter_bias, DOMAIN voter_bias),
                             sq(author_bias, DOMAIN author_bias)),
                        sq(product_bias, DOMAIN product_bias))
              ELSE Zero
  IN  RAdd(RAdd(RAdd(RAdd(rows(F.V), rows(F.A)), rows(F.P)), core), bias)

\* mutant: the sum is not halved
ObjectiveUnhalved(F, k, beta, upd) ==
  RAdd(SSE(F, k), Penalty(F, k, beta, upd))

\* line 405: the objective value of the epoch
Objective(F, k, beta, upd) ==
  RDiv(RAdd(SSE(F, k), Penalty(F, k, beta, upd)), IntR(2))

\* x < tol and x <= tol for a float x and the tolerance tol, which is kept
\* as the decimal n/d the command line (or the default) gives
Below(x, tol) == x < (tol[1] * UNIT + tol[2] - 1) \div tol[2]
AtMost(x, tol) == x <= (tol[1] * UNIT) \div tol[2]

\* mutant: the comparison is not strict
ConvergedNonStrict(prev, val, tol) ==
  IF prev = INF THEN FALSE ELSE AtMost(RAbs(RSub(prev, val)), tol)

\* mutant: previous starts at 0.0 in place of +infinity
ConvergedFromZero(prev, val, tol) ==
  Below(RAbs(RSub(IF prev = INF THEN Zero ELSE prev, val)), tol)

\* line 408: abs(previous - value) < _TOL
Converged(prev, val, tol) ==
  IF prev = INF THEN FALSE ELSE Below(RAbs(RSub(prev, val)), tol)

\* lines 364-411: the objective is computed and compared with the previous one
ConvergenceCheck ==
  /\ pc = "objective"
  /\ value' = Objective(Factors, globals.K, globals.BETA, globals.UPDATE_BIAS)
  /\ epochs' = epochs + 1
  /\ IF Converged(previous, value', globals.TOL)
     THEN /\ fit_state' = "CONVERGED"
          /\ pc' = "fitted"
          /\ UNCHANGED << previous, it >>
     ELSE /\ previous' = value'
          /\ it' = it + 1
          /\ pc' = "epoch"
          /\ UNCHANGED fit_state
  /\ UNCHANGED << inputVars, callVars, shuffles,
                  globals, error, modelVars, votes, reviews, alpha,
                  predictVars, idx >>

(***************************************************************************)
(* BETF_Model.predict (lines 432-465) and the driver's use of it           *)
(* (lines 491-496).                                                        *)
(***************************************************************************)
\* lines 439-442: the index of an entity, -1 when it was not in training
Resolve(map, key) == IF key \in DOMAIN map THEN map[key] ELSE -1

\* line 443: all three indices resolve and the review has a bias
Seen(vote, rd) ==
  /\ Resolve(voter_map, vote.voter) # -1
  /\ Resolve(author_map, vote.author) # -1
  /\ Resolve(product_map, rd[vote.review].product) # -1
  /\ vote.review \in DOMAIN review_bias

\* mutant: the fallback goes through the sigmoid as well
PredictionSigmoidFallback(vote, rd) ==
  IF Seen(vote, rd)
  THEN sigmoid(VotePred(Factors, globals.K, vote, rd))
  ELSE sigmoid(overall_mean)

\* mutant: predict rescales the sigmoid itself (the variant left commented
\* out in line 461)
PredictionRescaled(vote, rd) ==
  IF Seen(vote, rd)
  THEN RMul(IntR(5), sigmoid(VotePred(Factors, globals.K, vote, rd)))
  ELSE overall_mean

\* lines 443-448: the value appended for one vote
Prediction(vote, rd) ==
  IF Seen(vote, rd)
  THEN sigmoid(VotePred(Factors, globals.K, vote, rd))
  ELSE overall_mean

\* mutant: only unseen entities count (the variant left commented out in
\* lines 462-463)
ColdStartIncEntities(vote, rd) ==
  IF \/ Resolve(voter_map, vote.voter) = -1
     \/ Resolve(author_map, vote.author) = -1
     \/ Resolve(product_map, rd[vote.review].product) = -1
  THEN 1 ELSE 0

\* line 449: what one vote adds to the cold-start counter
ColdStartInc(vote, rd) == IF Seen(vote, rd) THEN 0 ELSE 1

\* the batches handed to predict
TestSets ==
  IF argv = BaseArgv /\ seed = 1 /\ DOMAIN train_reviews = ReviewIds
  THEN Batches ELSE {BaseTest}

\* lines 432-433: predict is entered with a batch
PredictBegin ==
  /\ pc = "fitted"
  /\ test' \in TestSets
  /\ pred' = <<>>
  /\ cold_start' = 0
  /\ idx' = 1
  /\ pc' = "predict"
  /\ UNCHANGED << argv, train, train_reviews, seed, callVars, shuffles,
                  globals, error, modelVars,
                  fitVars, ratio, out >>

\* mutant: the maps are indexed without the membership test, so an unseen
\* entity raises KeyError
PredictStepStrict ==
  /\ pc = "predict"
  /\ idx <= Len(test)
  /\ test[idx].review \in DOMAIN REVIEWS
  /\ IF Seen(test[idx], REVIEWS)
     THEN /\ pred' = Append(pred, Prediction(test[idx], REVIEWS))
          /\ idx' = idx + 1
          /\ UNCHANGED << pc, error >>
     ELSE /\ pc' = "predict_error"
          /\ error' = "KeyError"
          /\ UNCHANGED << pred, idx >>
  /\ UNCHANGED << inputVars, callVars, shuffles,
                  globals, modelVars, fitVars, ratio, out,
                  cold_start >>

\* one turn of the loop of lines 434-449
PredictStep ==
  /\ pc = "predict"
  /\ idx <= Len(test)
  /\ test[idx].review \in DOMAIN REVIEWS
  /\ pred' = Append(pred, Prediction(test[idx], REVIEWS))
  /\ cold_start' = cold_start + ColdStartInc(test[idx], REVIEWS)
  /\ idx' = idx + 1
  /\ UNCHANGED << inputVars, callVars, shuffles,
                  globals, pc, error, modelVars, fitVars, ratio, out >>

\* line 438 raises KeyError for a review id the lookup lacks
PredictKeyError ==
  /\ pc = "predict"
  /\ idx <= Len(test)
  /\ test[idx].review \notin DOMAIN REVIEWS
  /\ pc' = "predict_error"
  /\ error' = "KeyError"
  /\ UNCHANGED << inputVars, callVars, shuffles,
                  globals, modelVars, fitVars, predictVars, idx >>

\* lines 464-465: the ratio is printed and the list returned
PredictReturn ==
  /\ pc = "predict"
  /\ idx > Len(test)
  /\ Len(test) > 0
  /\ ratio' = RDiv(IntR(cold_start), IntR(Len(test)))
  /\ pc' = "predicted"
  /\ UNCHANGED << inputVars, callVars, shuffles,
                  globals, error, modelVars, fitVars, pred,
                  cold_start, out, idx >>

\* line 464 divides by len(votes) = 0 for an empty batch
PredictEmpty ==
  /\ pc = "predict"
  /\ Len(test) = 0
  /\ pc' = "predict_error"
  /\ error' = "ZeroDivisionError"
  /\ UNCHANGED << inputVars, callVars, shuffles,
                  globals, modelVars, fitVars, predictVars, idx >>

\* the driver puts the votes, the ratings and the predictions back on the
\* original scale (lines 492-496)
Denormalize ==
  /\ pc = "predicted"
  /\ train' = [i \in DOMAIN train |->
                 [train[i] EXCEPT !.vote = RMul(@, IntR(SCALE))]]
  /\ train_reviews' = [r \in DOMAIN train_reviews |->
                 [train_reviews[r] EXCEPT !.rating = RMul(@, IntR(SCALE))]]
  /\ out' = [i \in DOMAIN pred |-> RMul(pred[i], IntR(SCALE))]
  /\ pc' = "done"
  /\ UNCHANGED << argv, test, seed, callVars, shuffles,
                  globals, error, modelVars, fitVars, pred,
                  cold_start, ratio, idx >>

Next ==
  \/ LoadArgs \/ Normalize \/ FitKeyError \/ FitEmpty \/ FitSetup
  \/ EpochStart \/ LoopExhausted \/ VoteStep \/ RatingStep \/ RatingKeyError
  \/ Regularize \/ ConvergenceCheck
  \/ PredictBegin \/ PredictStep \/ PredictKeyError \/ PredictReturn
  \/ PredictEmpty \/ Denormalize

Spec == Init /\ [][Next]_vars

(***************************************************************************)
(* The tensor scorer on its own (lines 202-288): tensor_dot and the four   *)
(* derivative functions are called on a factor state, the factor state is  *)
(* changed in one place, and the same call is made again.  The factors are *)
(* whole numbers here, on which the products of the scorer are exact as    *)
(* they are on floats of this size.                                        *)
(***************************************************************************)
\* entry (i, j, k) of array m in factor state n: a whole number from lo up
WholeEntry(n, m, i, j, k, lo, width) ==
  IntR(lo + (((n * 5 + m * 4 + i * 7 + j * 11 + k * 13) * 37) % width))

WholeMatrix(n, m, rows, k, width) ==
  [i \in 0..(rows - 1) |-> [x \in Dims(k) |->
     WholeEntry(n, m, i, x, 0, -1, width)]]
WholeTensor(n, k) ==
  [x \in Dims(k) |-> [y \in Dims(k) |-> [z \in Dims(k) |->
     WholeEntry(n, 4, x, y, z, -1, 3)]]]

\* the state of the driver and of the model it fits
driverFrame ==
  << argv, train, train_reviews, test, seed, error, voter_map, author_map,
     product_map, voter_bias, review_bias, author_bias, product_bias,
     rating_avg, overall_mean, fitVars, predictVars, idx, shuffles >>

\* everything the scorer neither reads nor is called with
scorerFrame == << driverFrame, locals >>

\* no driver runs: no data is loaded, nothing is fitted or predicted
ScorerFrameInit ==
  /\ argv = <<>> /\ train = <<>> /\ train_reviews = <<>> /\ test = <<>>
  /\ seed = 1 /\ error = ""
  /\ voter_map = None /\ author_map = None /\ product_map = None
  /\ voter_bias = None /\ review_bias = None
  /\ author_bias = None /\ product_bias = None
  /\ rating_avg = None /\ overall_mean = None
  /\ votes = <<>> /\ reviews = <<>>
  /\ previous = INF /\ alpha = None
  /\ it = 0 /\ idx = 0 /\ value = None /\ epochs = 0
  /\ fit_state = "INITIALIZED"
  /\ pred = <<>> /\ cold_start = 0 /\ ratio = None /\ out = <<>>
  /\ shuffles = 0 /\ locals = None

TensorInit ==
  /\ pc = "scorer"
  /\ \E k \in 1..MaxDim, n \in 1..NumFactors :
       /\ globals = [Defaults EXCEPT !.K = k]
       /\ V = WholeMatrix(n, 1, NumRows, k, 4)
       /\ A = WholeMatrix(n, 2, NumRows, k, 3)
       /\ P = WholeMatrix(n, 3, NumRows, k, 3)
       /\ S = WholeTensor(n, k)
  /\ call = None /\ ret = <<>>
  /\ ScorerFrameInit

\* the calls of the five functions with their arguments
Calls ==
  LET R == 0..(NumRows - 1)
      NoChange == [kind |-> "none"]
  IN  {[fn |-> f, v |-> v, a |-> a, p |-> p, change |-> NoChange] :
         f \in {"tensor_dot", "tensor_dot_der_s"}, v \in R, a \in R, p \in R}
      \cup {[fn |-> "tensor_dot_der_v", a |-> a, p |-> p, change |-> NoChange] :
               a \in R, p \in R}
      \cup {[fn |-> "tensor_dot_der_a", v |-> v, p |-> p, change |-> NoChange] :
               v \in R, p \in R}
      \cup {[fn |-> "tensor_dot_der_p", v |-> v, a |-> a, change |-> NoChange] :
               v \in R, a \in R}

\* what the call returns on the factor state F
Apply(c, F, k) ==
  CASE c.fn = "tensor_dot" -> tensor_dot(F, k, c.v, c.a, c.p)
    [] c.fn = "tensor_dot_der_v" -> tensor_dot_der_v(F, k, c.a, c.p)
    [] c.fn = "tensor_dot_der_a" -> tensor_dot_der_a(F, k, c.v, c.p)
    [] c.fn = "tensor_dot_der_p" -> tensor_dot_der_p(F, k, c.v, c.a)
    [] c.fn = "tensor_dot_der_s" -> tensor_dot_der_s(F, k, c.v, c.a, c.p)

\* mutant: tensor_dot_der_s builds its result in self.S
TensorCallInPlace ==
  /\ pc = "scorer"
  /\ \E c \in Calls :
       /\ call' = c
       /\ ret' = << Apply(c, Factors, globals.K) >>
       /\ S' = IF c.fn = "tensor_dot_der_s" THEN ret'[1] ELSE S
  /\ pc' = "called"
  /\ UNCHANGED << scorerFrame, globals, V, A, P >>

\* a call: the functions read the factors and assign no field of the model
TensorCall ==
  /\ pc = "scorer"
  /\ \E c \in Calls :
       /\ call' = c
       /\ ret' = << Apply(c, Factors, globals.K) >>
  /\ pc' = "called"
  /\ UNCHANGED << scorerFrame, globals, V, A, P, S >>

\* the changes made to the factor state between two calls: a row of V, A or
\* P is doubled, or one entry of V, A, P or S is increased by 1
Changes(k) ==
  LET R == 0..(NumRows - 1)
  IN  {[kind |-> "double", m |-> m, row |-> r] :
         m \in {"V", "A", "P"}, r \in R}
      \cup {[kind |-> "bump", m |-> m, row |-> r, d |-> d] :
               m \in {"V", "A", "P"}, r \in R, d \in Dims(k)}
      \cup {[kind |-> "bump", m |-> "S", x |-> x, y |-> y, z |-> z] :
               x \in Dims(k), y \in Dims(k), z \in Dims(k)}

Changed(M, name, ch) ==
  IF ch.m # name THEN M
  ELSE IF ch.kind = "double"
       THEN [M EXCEPT ![ch.row] = [d \in DOMAIN @ |-> RMul(IntR(2), @[d])]]
       ELSE [M EXCEPT ![ch.row][ch.d] = RAdd(@, One)]

FactorChange ==
  /\ pc = "called"
  /\ \E ch \in Changes(globals.K) :
       /\ call' = [call EXCEPT !.change = ch]
       /\ V' = Changed(V, "V", ch)
       /\ A' = Changed(A, "A", ch)
       /\ P' = Changed(P, "P", ch)
       /\ S' = IF ch.m = "S"
               THEN [S EXCEPT ![ch.x][ch.y][ch.z] = RAdd(@, One)]
               ELSE S
  /\ pc' = "changed"
  /\ UNCHANGED << scorerFrame, globals, ret >>

\* the same call once more, on the factor state as it is now
TensorRecall ==
  /\ pc \in {"called", "changed"}
  /\ ret' = Append(ret, Apply(call, Factors, globals.K))
  /\ pc' = "recalled"
  /\ UNCHANGED << scorerFrame, globals, V, A, P, S, call >>

TensorNext == TensorCall \/ FactorChange \/ TensorRecall

TensorSpec == TensorInit /\ [][TensorNext]_vars

(***************************************************************************)
(* split_votes of the modeling module (src/modeling.py, lines 65-80), on   *)
(* its own: it is called on a list of votes, each with the date of its     *)
(* review.                                                                 *)
(***************************************************************************)
\* review dates as the strings 'dd.mm.yyyy' give them: day, month, year
Dates == {<<15, 3, 2010>>, <<2, 11, 2010>>, <<20, 1, 2011>>}

\* the vote lists split_votes is called on: the j-th vote is of rater j
VoteLists ==
  UNION {{[j \in 1..n |-> [rater |-> j, date |-> f[j]]] : f \in [1..n -> Dates]} :
           n \in 0..MaxSplit}

\* datetime.strptime(date, '%d.%m.%Y') as a number that orders as datetimes do
strptime(date) == date[3] * 10000 + date[2] * 100 + date[1]

\* sorted(list, key): the stable sort by insertion
RECURSIVE Insert(_, _)
Insert(v, sorted) ==
  IF sorted = <<>> THEN << v >>
  ELSE IF strptime(v.date) < strptime(Head(sorted).date)
       THEN << v >> \o sorted
       ELSE << Head(sorted) >> \o Insert(v, Tail(sorted))

RECURSIVE sorted(_)
sorted(list) ==
  IF list = <<>> THEN <<>>
  ELSE Insert(list[Len(list)], sorted(SubSeq(list, 1, Len(list) - 1)))

\* int(ceil(n / 2.0))
HalfUp(n) == (n + 1) \div 2

\* lines 77-80: the sorted list is bound to sorted_reviews, and the halves
\* returned are slices of the list as it was given
split_votes(list) ==
  LET sorted_reviews == sorted(list)
      cut_point == HalfUp(Len(list))
  IN  << SubSeq(list, 1, cut_point), SubSeq(list, cut_point + 1, Len(list)) >>

SplitInit ==
  /\ pc = "modeling"
  /\ \E list \in VoteLists : call = [fn |-> "split_votes", votes |-> list]
  /\ ret = <<>>
  /\ globals = Defaults
  /\ V = None /\ A = None /\ P = None /\ S = None
  /\ ScorerFrameInit

SplitVotes ==
  /\ pc = "modeling"
  /\ ret' = split_votes(call.votes)
  /\ pc' = "split"
  /\ UNCHANGED << scorerFrame, globals, V, A, P, S, call >>

SplitNext == SplitVotes

SplitSpec == SplitInit /\ [][SplitNext]_vars

(***************************************************************************)
(* Bias correction (util/bias_correction.py), on its own: remove_bias is   *)
(* called on the instances of a training set, and adjust_bias, with the    *)
(* bias it returned, either on the same instances or on a test batch.      *)
(***************************************************************************)
_IDS_STOP == 3

\* instances: the ids of review, author and voter, then a feature
Instances ==
  { <<"r1", "a1", "u1", 7>>, <<"r2", "a1", "u2", 7>>, <<"r3", "a2", "u1", 7>> }

\* instances met at prediction time only: review and voter never seen
ColdInstances == { <<"r9", "a1", "u9", 7>> }

\* helpfulness votes of the training instances
Truths == {0, 3, 5}

\* values of the -b option, as lists of characters
TargetCodes == { <<"r">>, <<"a", "v">>, <<"v", "a", "r">>, <<"x">> }

\* predictions handed to adjust_bias for a test batch
Results == {IntR(3)}

SeqsUpTo(E, n) == UNION {[1..m -> E] : m \in 0..n}

\* lines 35-48; the empty list stands for the call of sys.exit
parse_target(target_code) ==
  LET has(c) == \E i \in DOMAIN target_code : target_code[i] = c
  IN  (IF has("r") THEN << "review" >> ELSE <<>>)
        \o (IF has("a") THEN << "author" >> ELSE <<>>)
        \o (IF has("v") THEN << "voter" >> ELSE <<>>)

\* lines 69-70 and 72: the id an instance has for an entity type
EntityOf(instance, etype) ==
  LET first == SubSeq(instance, 1, _IDS_STOP)
  IN  first[CASE etype = "review" -> 1 [] etype = "author" -> 2
              [] etype = "voter" -> 3]

\* lines 64-84: the global mean, and for every entity of a targeted type the
\* mean of its instances' truth less the global mean
get_entities_biases(ids, truth, targets) ==
  LET avg == Rat(RSum(truth, DOMAIN truth), Len(truth))
      of(etype, entity) == {i \in DOMAIN ids : EntityOf(ids[i], etype) = entity}
      sum(etype, entity) == RSum(truth, of(etype, entity))
      count(etype, entity) == Cardinality(of(etype, entity))
  IN  [key \in {"avg"} \cup {targets[t] : t \in DOMAIN targets} |->
         IF key = "avg" THEN avg
         ELSE [entity \in {EntityOf(ids[i], key) : i \in DOMAIN ids} |->
                 RSub(Rat(sum(key, entity), count(key, entity)), avg)]]

\* lines 100-109
update_truth(ids, truth, targets, bias) ==
  [index \in DOMAIN truth |->
     IF index \in DOMAIN ids
       THEN RSub(RSub(IntR(truth[index]), bias["avg"]),
                 RSum([t \in DOMAIN targets |->
                         bias[targets[t]][EntityOf(ids[index], targets[t])]],
                      DOMAIN targets))
       ELSE Zero]

\* lines 127-131
remove_bias(ids, truth, target_code) ==
  LET targets == parse_target(target_code)
      bias == get_entities_biases(ids, truth, targets)
  IN  << bias, update_truth(ids, truth, targets, bias) >>

\* adjust_bias without line 155
adjust_bias_without_avg(bias, ids, res, target_code) ==
  LET targets == parse_target(target_code)
      known(index) ==
        {t \in DOMAIN targets :
           EntityOf(ids[index], targets[t]) \in DOMAIN bias[targets[t]]}
      new_res ==
        [index \in DOMAIN res |->
           IF index \in DOMAIN ids
             THEN RAdd(res[index],
                       RSum([t \in known(index) |->
                               bias[targets[t]][EntityOf(ids[index], targets[t])]],
                            known(index)))
             ELSE res[index]]
  IN  [new_res |-> new_res, res |-> res]

\* lines 149-161: the list returned, and the list res as the call leaves it
adjust_bias(bias, ids, res, target_code) ==
  LET targets == parse_target(target_code)
      known(index) ==
        {t \in DOMAIN targets :
           EntityOf(ids[index], targets[t]) \in DOMAIN bias[targets[t]]}
      new_res ==
        [index \in DOMAIN res |->
           IF index \in DOMAIN ids
             THEN RAdd(RAdd(res[index], bias["avg"]),
                       RSum([t \in known(index) |->
                               bias[targets[t]][EntityOf(ids[index], targets[t])]],
                            known(index)))
             ELSE res[index]]
  IN  [new_res |-> new_res, res |-> res]

\* the caller's training set: a truth value per instance
BiasInit ==
  /\ pc = "bias_correction"
  /\ \E ids \in SeqsUpTo(Instances, MaxInst), code \in TargetCodes :
       \E truth \in [DOMAIN ids -> Truths] :
         call = [fn |-> "remove_bias", ids |-> ids, truth |-> truth,
                 target_code |-> code]
  /\ ret = <<>>
  /\ globals = Defaults
  /\ V = None /\ A = None /\ P = None /\ S = None
  /\ ScorerFrameInit

\* remove_bias: sys.exit of parse_target (line 47), the division by
\* len(truth) of line 66, or the pair returned in line 131
RemoveBias ==
  /\ pc = "bias_correction"
  /\ IF parse_target(call.target_code) = <<>>
       THEN pc' = "exited" /\ ret' = ret
       ELSE IF Len(call.truth) = 0
         THEN pc' = "raised" /\ ret' = ret
         ELSE /\ pc' = "removed"
              /\ ret' = remove_bias(call.ids, call.truth, call.target_code)
  /\ UNCHANGED << scorerFrame, globals, V, A, P, S, call >>

\* the caller hands the bias to adjust_bias, with the instances the bias was
\* taken from and the truth remove_bias returned, or with a test batch and
\* its predictions; removed is the call the bias comes from
AdjustCall ==
  /\ pc = "removed"
  /\ \E batch \in {<< call.ids, ret[2] >>}
                    \cup UNION {{<< ids, res >> : res \in [DOMAIN ids -> Results]} :
                                  ids \in SeqsUpTo(Instances \cup ColdInstances,
                                                   MaxBatch) \ {<<>>}} :
       call' = [fn |-> "adjust_bias", bias |-> ret[1], ids |-> batch[1],
                res |-> batch[2], target_code |-> call.target_code,
                removed |-> call]
  /\ pc' = "adjusting"
  /\ UNCHANGED << scorerFrame, globals, V, A, P, S, ret >>

AdjustBias ==
  /\ pc = "adjusting"
  /\ LET done == adjust_bias(call.bias, call.ids, call.res, call.target_code)
     IN  /\ ret' = done.new_res
         /\ call' = [call EXCEPT !.res = done.res]
  /\ pc' = "adjusted"
  /\ UNCHANGED << scorerFrame, globals, V, A, P, S >>

BiasNext == RemoveBias \/ AdjustCall \/ AdjustBias

BiasSpec == BiasInit /\ [][BiasNext]_vars

(***************************************************************************)
(* The train file of RankSVM (algo/ltr/svmrank.py), on its own:            *)
(* output_model writes the instances, the classifier of lib/svm_rank       *)
(* writes one score for each line of that file, and predict reads the      *)
(* scores back.  Position p of a sequence stands for the Python index      *)
(* p - 1.                                                                  *)
(***************************************************************************)
\* query ids: int(vote['voter']) of line 178
QueryIds == {1, 2, 3}

\* the weight of the learnt model on the one feature of an instance
Weights == {1, -2}

\* the feature vectors of n instances: instance p has the feature value 10 p
Features(n) == [p \in 1..n |-> 10 * p]

\* lines 84-104: the line of an instance
model_str(x, y, qid) == [target |-> y, qid |-> qid, features |-> x]

\* sorted(index, key=lambda i: qid[i]) of line 121: the stable sort by insertion
RECURSIVE InsertByKey(_, _, _)
InsertByKey(i, index, qid) ==
  IF index = <<>> THEN << i >>
  ELSE IF qid[i] < qid[Head(index)]
       THEN << i >> \o index
       ELSE << Head(index) >> \o InsertByKey(i, Tail(index), qid)

RECURSIVE sorted_by(_, _)
sorted_by(index, qid) ==
  IF index = <<>> THEN <<>>
  ELSE InsertByKey(index[Len(index)],
                   sorted_by(SubSeq(index, 1, Len(index) - 1), qid), qid)

\* lines 120-124: the lines written to outfile, and the index returned
output_model(X, y, qid) ==
  LET index == sorted_by([p \in 1..Len(X) |-> p], qid)
  IN  [outfile |-> [k \in DOMAIN index |->
                      model_str(X[index[k]],
                                IF y = None THEN 0 ELSE y[index[k]],
                                qid[index[k]])],
       index |-> index]

\* svm_rank_classify (lines 239-242): the score of every line of the data
\* file, in the order of the file
svm_rank_classify(datafile, w) ==
  [k \in DOMAIN datafile |-> w * datafile[k].features]

\* lines 247 and 249: the scores read as floats, then picked through the index
read_pred(predfile, train_index) ==
  LET raw_pred == [k \in DOMAIN predfile |-> IntR(predfile[k])]
  IN  [k \in DOMAIN train_index |-> raw_pred[train_index[k]]]

\* the instances of a training set, with or without truth values, and the
\* model the learner returns for them
SvmInit ==
  /\ pc = "svmrank"
  /\ \E n \in 0..MaxRank, w \in Weights :
       \E qid \in [1..n -> QueryIds], y \in {None, [p \in 1..n |-> p % 2]} :
         call = [fn |-> "output_model", X |-> Features(n), y |-> y,
                 qid |-> qid, w |-> w]
  /\ ret = <<>>
  /\ globals = Defaults
  /\ V = None /\ A = None /\ P = None /\ S = None
  /\ ScorerFrameInit

\* line 226
OutputModel ==
  /\ pc = "svmrank"
  /\ ret' = output_model(call.X, call.y, call.qid)
  /\ pc' = "written"
  /\ UNCHANGED << scorerFrame, globals, V, A, P, S, call >>

\* lines 239-242
Classify ==
  /\ pc = "written"
  /\ ret' = [outfile |-> ret.outfile, index |-> ret.index,
             predfile |-> svm_rank_classify(ret.outfile, call.w)]
  /\ pc' = "classified"
  /\ UNCHANGED << scorerFrame, globals, V, A, P, S, call >>

\* lines 244-249
ReadPredictions ==
  /\ pc = "classified"
  /\ ret' = [outfile |-> ret.outfile, index |-> ret.index,
             predfile |-> ret.predfile,
             pred |-> read_pred(ret.predfile, ret.index)]
  /\ pc' = "aligned"
  /\ UNCHANGED << scorerFrame, globals, V, A, P, S, call >>

SvmNext == OutputModel \/ Classify \/ ReadPredictions

SvmSpec == SvmInit /\ [][SvmNext]_vars

(***************************************************************************)
(* Newton-Raphson (algorithms/cap/newton_raphson.py), on its own.  theta   *)
(* is a vector; the functions it is called with act on every component by  *)
(* itself, so that the derivative is a diagonal matrix, kept as the vector  *)
(* of its diagonal.                                                         *)
(***************************************************************************)
\* the functions whose root is sought: theta, theta - 1, and the constant 1
Functions == {"linear", "shifted", "constant"}

\* initial values of theta
Thetas == { << Zero, Zero >>, << One, Zero >>, << IntR(2), One >> }

\* values of the arguments eps and step
Tolerances == {Zero, Rat(3, 10)}
Steps == {One, Rat(1, 2)}

\* fun(theta, variable_group) of the caller
fun(theta, variable_group) ==
  [j \in DOMAIN theta |->
     CASE variable_group = "linear" -> theta[j]
       [] variable_group = "shifted" -> RSub(theta[j], One)
       [] variable_group = "constant" -> One]

\* der(theta, variable_group) of the caller: the diagonal of the derivative
der(theta, variable_group) ==
  [j \in DOMAIN theta |->
     IF variable_group = "constant" THEN Zero ELSE One]

\* numpy.linalg.pinv of a diagonal matrix: the reciprocals of the diagonal,
\* zero where the diagonal is zero
pinv(der_val) ==
  [j \in DOMAIN der_val |->
     IF der_val[j] = Zero THEN Zero ELSE RDiv(One, der_val[j])]

\* lines 40-44 and 48-52: theta_0 - step * pinv(der_val).dot(fun_val)
update(theta_0, variable_group, step) ==
  LET der_val == der(theta_0, variable_group)
      fun_val == fun(theta_0, variable_group)
      inv == pinv(der_val)
      dot == [j \in DOMAIN theta_0 |-> RMul(inv[j], fun_val[j])]
  IN  [j \in DOMAIN theta_0 |-> RSub(theta_0[j], RMul(step, dot[j]))]

\* allclose(theta_n, zeros(shape), atol=eps): every component within
\* atol + rtol * 0 of zero
allclose(theta_n, atol) == \A j \in DOMAIN theta_n : RAbs(theta_n[j]) <= atol

\* the loop test without the test of the iterate
InLoopTestOfCountOnly(i, n_iter, theta_n, eps) == i < n_iter

\* the loop test of line 46
InLoopTest(i, n_iter, theta_n, eps) == i < n_iter /\ ~allclose(theta_n, eps)

NewtonInit ==
  /\ pc = "newton_raphson"
  /\ \E f \in Functions, theta \in Thetas, n \in 0..MaxNewton,
        eps \in Tolerances, step \in Steps :
       call = [fn |-> "newton_raphson", variable_group |-> f,
               theta_0 |-> theta, n_iter |-> n, eps |-> eps, step |-> step]
  /\ ret = <<>>
  /\ globals = Defaults
  /\ V = None /\ A = None /\ P = None /\ S = None
  /\ ScorerFrameInit

\* lines 40-45: the update made before the loop; fun_calls and der_calls
\* count the evaluations of fun and der
NewtonFirst ==
  /\ pc = "newton_raphson"
  /\ locals' = [theta_0 |-> call.theta_0,
                theta_n |-> update(call.theta_0, call.variable_group, call.step),
                i |-> 1, fun_calls |-> 1, der_calls |-> 1]
  /\ pc' = "while"
  /\ UNCHANGED << driverFrame, globals, V, A, P, S, call, ret >>

\* lines 46-53: an iteration of the loop
NewtonLoop ==
  /\ pc = "while"
  /\ InLoopTest(locals.i, call.n_iter, locals.theta_n, call.eps)
  /\ locals' = [theta_0 |-> locals.theta_n,
                theta_n |-> update(locals.theta_n, call.variable_group, call.step),
                i |-> locals.i + 1,
                fun_calls |-> locals.fun_calls + 1,
                der_calls |-> locals.der_calls + 1]
  /\ pc' = "while"
  /\ UNCHANGED << driverFrame, globals, V, A, P, S, call, ret >>

\* lines 46 and 54: the loop test fails
NewtonReturn ==
  /\ pc = "while"
  /\ ~InLoopTest(locals.i, call.n_iter, locals.theta_n, call.eps)
  /\ ret' = locals.theta_n
  /\ pc' = "returned"
  /\ UNCHANGED << driverFrame, globals, V, A, P, S, call, locals >>

NewtonNext == NewtonFirst \/ NewtonLoop \/ NewtonReturn

NewtonSpec == NewtonInit /\ [][NewtonNext]_vars

\* the function runs by itself: a statement that can be executed is executed
NewtonRun == NewtonSpec /\ WF_vars(NewtonNext)

(***************************************************************************)
(* Properties of predict.                                                  *)
(***************************************************************************)
InPredict == pc \in {"predict", "predicted", "done", "predict_error"}

\* the four conditions of the claim, stated on the fitted model
HasIndex(vote) ==
  /\ vote.voter \in DOMAIN voter_map
  /\ vote.author \in DOMAIN author_map
  /\ REVIEWS[vote.review].product \in DOMAIN product_map
HasReviewBias(vote) == vote.review \in DOMAIN review_bias

\* the sigmoid score of a vote whose four lookups succeed
Score(vote) ==
  sigmoid(RAdd(RAdd(RAdd(overall_mean, voter_bias[vote.voter]),
                    review_bias[vote.review]),
               tensor_dot(Factors, globals.K, voter_map[vote.voter],
                          author_map[vote.author],
                          product_map[REVIEWS[vote.review].product])))

\* C1: every prediction made is the sigmoid of overall_mean + voter bias +
\* review bias + tensor_dot when voter, author and product have an index and
\* the review has a bias, and is exactly overall_mean (no sigmoid) otherwise.
C1_PredictValue ==
  InPredict =>
    \A i \in 1..Len(pred) :
      IF HasIndex(test[i]) /\ HasReviewBias(test[i])
      THEN pred[i] = Score(test[i])
      ELSE pred[i] = overall_mean

\* a returned batch with a scored vote and a vote that falls back only
\* because its review has no bias
C1_Witness ==
  /\ pc = "predicted"
  /\ \E i, j \in 1..Len(pred) :
       /\ HasIndex(test[i]) /\ HasReviewBias(test[i])
       /\ pred[i] # overall_mean
       /\ HasIndex(test[j]) /\ ~HasReviewBias(test[j])
       /\ pred[j] = overall_mean

\* C5: a vote whose voter, author, product or review was not in training
\* (its review id being in the review lookup) raises no error: the step that
\* handles it appends the fallback and moves to the next vote; predict only
\* fails on a review id the lookup lacks or on an empty batch.
C5_NoErrorOnColdStart ==
  /\ [](pc = "predict_error" =>
          \/ error = "KeyError" /\ test[idx].review \notin DOMAIN REVIEWS
          \/ error = "ZeroDivisionError" /\ test = <<>>)
  /\ [][(/\ pc = "predict" /\ idx <= Len(test)
         /\ test[idx].review \in DOMAIN REVIEWS
         /\ ~(HasIndex(test[idx]) /\ HasReviewBias(test[idx])))
        => (/\ pc' = "predict" /\ error' = ""
            /\ idx' = idx + 1
            /\ pred' = Append(pred, overall_mean))]_vars

\* a batch that went through an unseen voter first and returned
C5_Witness ==
  /\ pc = "predicted"
  /\ Len(test) = 2
  /\ test[1].voter \notin DOMAIN voter_map
  /\ Len(pred) = 2

\* C8 as stated: the values predict returns are in the original scale, that
\* is SCALE times the normalized prediction of the vote.
C8_Original ==
  pc = "predicted" =>
    /\ Len(pred) = Len(test)
    /\ \A i \in 1..Len(pred) :
         pred[i] = RMul(IntR(SCALE),
                        IF HasIndex(test[i]) /\ HasReviewBias(test[i])
                        THEN Score(test[i]) ELSE overall_mean)

\* the mean of the votes of a list
MeanOf(vs) ==
  RDiv(RSum([i \in DOMAIN vs |-> vs[i].vote], DOMAIN vs), IntR(Len(vs)))

\* C8 (amended): predict returns a list parallel to its batch whose values
\* are on the normalized scale of training (a sigmoid value, or the mean of
\* the normalized training votes); it is the driver that multiplies each of
\* them by 5 afterwards, giving a list parallel to the batch on the original
\* scale.
C8_NormalizedParallel ==
  /\ pc = "predicted" =>
       /\ Len(pred) = Len(test)
       /\ \A i \in 1..Len(pred) :
            IF HasIndex(test[i]) /\ HasReviewBias(test[i])
            THEN pred[i] = Score(test[i])
            ELSE pred[i] = MeanOf(train)
  /\ pc = "done" =>
       /\ Len(out) = Len(test)
       /\ \A i \in 1..Len(out) : out[i] = RMul(IntR(SCALE), pred[i])

\* the driver has rescaled a batch holding a scored vote and a fallback
C8_Witness ==
  /\ pc = "done"
  /\ \E i, j \in 1..Len(out) :
       /\ HasIndex(test[i]) /\ HasReviewBias(test[i])
       /\ ~HasIndex(test[j])
       /\ out[i] # pred[i] /\ out[j] # pred[j]

\* the votes predicted so far that took the fallback
Fallbacks == {i \in 1..Len(pred) : ~(HasIndex(test[i]) /\ HasReviewBias(test[i]))}

\* C9: the cold-start counter counts exactly the votes that took the
\* fallback, and the reported ratio is that count over the batch length.
C9_ColdStartCount ==
  /\ InPredict => cold_start = Cardinality(Fallbacks)
  /\ pc \in {"predicted", "done"} =>
       /\ Len(pred) = Len(test)
       /\ ratio = RDiv(IntR(Cardinality(Fallbacks)), IntR(Len(test)))

\* a returned batch with one scored vote and one fallback taken only for
\* the missing review bias: ratio 1/2
C9_Witness ==
  /\ pc = "predicted"
  /\ Len(test) = 2
  /\ ratio = Rat(1, 2)
  /\ \E j \in 1..2 : HasIndex(test[j]) /\ ~HasReviewBias(test[j])

(***************************************************************************)
(* Properties of fit.                                                      *)
(***************************************************************************)
\* fit has built its maps, factors and biases (it copied the votes)
Built == votes # <<>>
FitOver == fit_state \in {"CONVERGED", "MAX_ITER_REACHED"}

\* the steps the state machine of the optimizer allows
MachineStep ==
  \/ fit_state' = fit_state
  \/ fit_state = "INITIALIZED"
       /\ fit_state' \in {"ITERATING", "MAX_ITER_REACHED", "ABORTED"}
  \/ fit_state = "ITERATING"
       /\ fit_state' \in {"CONVERGED", "MAX_ITER_REACHED", "ABORTED"}

\* the step that ends an epoch: it stops as CONVERGED exactly when the
\* objective moved by strictly less than the tolerance
EpochEnd ==
  pc = "objective" =>
    LET delta == RAbs(RSub(previous, value'))
        close == previous # INF /\ Below(delta, globals.TOL)
    IN  /\ epochs' = epochs + 1
        /\ close => fit_state' = "CONVERGED" /\ pc' = "fitted"
        /\ ~close => /\ fit_state' = "ITERATING" /\ pc' = "epoch"
                     /\ previous' = value' /\ it' = it + 1

\* C2: fit follows INITIALIZED -> ITERATING* -> CONVERGED | MAX_ITER_REACHED
\* (or aborts): after each epoch it stops as CONVERGED exactly when
\* |previous - current| < tolerance, it stops as MAX_ITER_REACHED after
\* exactly max_iterations epochs, and it never runs more than max_iterations
\* epochs.
C2_StateMachine ==
  /\ [](/\ epochs <= globals.ITER \/ pc \in {"main", "exit"}
        /\ fit_state = "ITERATING" =>
             it = epochs /\ (pc # "epoch" => it < globals.ITER)
        /\ fit_state = "MAX_ITER_REACHED" => epochs = globals.ITER
        /\ fit_state = "CONVERGED" =>
             /\ epochs >= 1 /\ previous # INF
             /\ Below(RAbs(RSub(previous, value)), globals.TOL))
  /\ [][MachineStep /\ EpochEnd]_vars

\* fit stopped as converged after its second epoch although more were allowed
C2_Witness ==
  /\ fit_state = "CONVERGED"
  /\ epochs = 2
  /\ globals.ITER > 2

\* C3: with tolerance 0 fit never stops as converged, and when it ends it
\* has run exactly max_iterations epochs.
C3_ZeroTolerance ==
  globals.TOL = <<0, 1>> /\ pc \notin {"main", "exit"} =>
    /\ fit_state # "CONVERGED"
    /\ FitOver => epochs = globals.ITER /\ fit_state = "MAX_ITER_REACHED"

\* fit ended after 3 = max_iterations epochs with tolerance 0
C3_Witness ==
  /\ globals.TOL = <<0, 1>>
  /\ globals.ITER = 3
  /\ fit_state = "MAX_ITER_REACHED"
  /\ epochs = 3
  /\ pc = "fitted"

\* C4 as stated: when the command line selects dynamic bias ('-b d') every
\* epoch decays each voter, author and product bias by alpha * beta * bias
\* and leaves review_bias alone; in static mode no bias changes.
C4_DynamicBiasDecay ==
  [][pc = "regularize" =>
       /\ review_bias' = review_bias
       /\ IF globals.BIAS = "d"
          THEN /\ voter_bias' = [u \in DOMAIN voter_bias |->
                    Decay(alpha, globals.BETA, voter_bias[u])]
               /\ author_bias' = [a \in DOMAIN author_bias |->
                    Decay(alpha, globals.BETA, author_bias[a])]
               /\ product_bias' = [p \in DOMAIN product_bias |->
                    Decay(alpha, globals.BETA, product_bias[p])]
          ELSE UNCHANGED << voter_bias, author_bias, product_bias >>]_vars

\* C6: fit aborts with an error, before any epoch, when the training list is
\* empty and when a training vote names a review the lookup lacks.
C6_FitAborts ==
  (pc \notin {"main", "exit", "loaded", "fit"}
     /\ (train = <<>> \/ MissingReview(train, train_reviews)))
  => /\ pc = "aborted"
     /\ fit_state = "ABORTED"
     /\ error = IF MissingReview(train, train_reviews)
                THEN "KeyError" ELSE "ZeroDivisionError"
     /\ epochs = 0 /\ it = 0 /\ votes = <<>> /\ reviews = <<>>
     /\ overall_mean = None /\ voter_bias = None

\* fit was handed votes of which one names a review the lookup lacks
C6_Witness ==
  /\ pc = "aborted"
  /\ Len(train) = 2
  /\ \E i, j \in 1..2 : /\ train[i].review \in DOMAIN train_reviews
                        /\ train[j].review \notin DOMAIN train_reviews

IsDense(map) ==
  /\ \A x, y \in DOMAIN map : map[x] = map[y] => x = y
  /\ {map[x] : x \in DOMAIN map} = 0..(Cardinality(DOMAIN map) - 1)

IsMatrix(M, n, k) ==
  /\ DOMAIN M = 0..(n - 1)
  /\ \A i \in DOMAIN M : DOMAIN M[i] = 0..(k - 1)

\* C7: after _initialize_matrices the key sets of voter_map, author_map and
\* product_map are exactly the voters, authors and (through the review) the
\* products of the training votes, each map is a bijection onto 0..n-1, and
\* V, A, P have n rows of K columns while S is K x K x K.
C7_EntityMaps ==
  Built =>
    /\ DOMAIN voter_map = {train[i].voter : i \in DOMAIN train}
    /\ DOMAIN author_map = {train[i].author : i \in DOMAIN train}
    /\ DOMAIN product_map =
         {train_reviews[train[i].review].product : i \in DOMAIN train}
    /\ IsDense(voter_map) /\ IsDense(author_map) /\ IsDense(product_map)
    /\ IsMatrix(V, Cardinality(DOMAIN voter_map), globals.K)
    /\ IsMatrix(A, Cardinality(DOMAIN author_map), globals.K)
    /\ IsMatrix(P, Cardinality(DOMAIN product_map), globals.K)
    /\ IsMatrix(S, globals.K, globals.K)
    /\ \A x, y \in DOMAIN S : DOMAIN S[x][y] = 0..(globals.K - 1)
    /\ \A i \in DOMAIN train :
         /\ voter_map[train[i].voter] \in DOMAIN V
         /\ author_map[train[i].author] \in DOMAIN A
         /\ product_map[train_reviews[train[i].review].product] \in DOMAIN P

\* a fit over two voters, one author and one product, in a lookup that also
\* holds reviews of another author and another product
C7_Witness ==
  /\ Built
  /\ pc = "epoch"
  /\ Cardinality(DOMAIN voter_map) = 2
  /\ Cardinality(DOMAIN author_map) = 1
  /\ Cardinality({train_reviews[r].author : r \in DOMAIN train_reviews}) = 2

\* sum of the votes with the given indices, and the same for ratings
VoteSum(I) == RSum([i \in DOMAIN votes |-> votes[i].vote], I)
RatingSum(R) == RSum([r \in DOMAIN train_reviews |-> train_reviews[r].rating], R)

\* C10: voter_bias[u] is the average over u's votes of vote - overall_mean,
\* review_bias[r] the average over the votes on r of vote - overall_mean -
\* voter_bias[voter]; author_bias[a] is the average over a's reviews of
\* rating - rating_avg, product_bias[p] the average over p's reviews of
\* rating - rating_avg - author_bias[author], rating_avg being the mean
\* rating of the reviews of the lookup.
C10_BiasAverages ==
  Built /\ pc # "done" =>
    LET I == DOMAIN votes
        R == DOMAIN train_reviews
        n(X) == IntR(Cardinality(X))
    IN  /\ overall_mean = RDiv(VoteSum(I), n(I))
        /\ rating_avg = RDiv(RatingSum(R), n(R))
        /\ DOMAIN voter_bias = {votes[i].voter : i \in I}
        /\ DOMAIN review_bias = {votes[i].review : i \in I}
        /\ DOMAIN author_bias = {train_reviews[r].author : r \in R}
        /\ DOMAIN product_bias = {train_reviews[r].product : r \in R}
        /\ \A u \in DOMAIN voter_bias :
             LET X == {i \in I : votes[i].voter = u}
             IN  voter_bias[u] =
                   RDiv(RSub(VoteSum(X), RMul(overall_mean, n(X))), n(X))
        /\ \A r \in DOMAIN review_bias :
             LET X == {i \in I : votes[i].review = r}
             IN  review_bias[r] =
                   RDiv(RSub(RSub(VoteSum(X), RMul(overall_mean, n(X))),
                             RSum([i \in I |-> voter_bias[votes[i].voter]], X)),
                        n(X))
        /\ \A a \in DOMAIN author_bias :
             LET X == {r \in R : train_reviews[r].author = a}
             IN  author_bias[a] =
                   RDiv(RSub(RatingSum(X), RMul(rating_avg, n(X))), n(X))
        /\ \A p \in DOMAIN product_bias :
             LET X == {r \in R : train_reviews[r].product = p}
             IN  product_bias[p] =
                   RDiv(RSub(RSub(RatingSum(X), RMul(rating_avg, n(X))),
                             RSum([r \in R |-> author_bias[train_reviews[r].author]], X)),
                        n(X))

\* biases estimated from two votes of different voters on one review, with
\* a non-zero voter bias, in a lookup where an author has two reviews
C10_Witness ==
  /\ Built /\ pc = "epoch" /\ it = 0
  /\ \E r \in DOMAIN review_bias :
       Cardinality({votes[i].voter : i \in {j \in DOMAIN votes : votes[j].review = r}}) = 2
  /\ \E u \in DOMAIN voter_bias : voter_bias[u] # Zero
  /\ \E a \in DOMAIN author_bias :
       Cardinality({r \in DOMAIN train_reviews : train_reviews[r].author = a}) = 2

(***************************************************************************)
(* The bias decomposition as a residual split.                             *)
(***************************************************************************)
\* a sum of n residuals is zero as far as numbers of the grid allow: it is
\* within the rounding of the one quotient by n, and is 0 when n divides
Vanishes(sum, n) == 2 * Abs(sum) <= n

\* C11: after the biases are estimated the residuals sum to zero: for every
\* voter the sum over the voter's training votes of vote - overall_mean -
\* voter_bias[voter], for every author the sum over the author's reviews of
\* rating - rating_avg - author_bias[author], and for every product the sum
\* over its reviews of rating - rating_avg - author_bias[author] -
\* product_bias[product].
C11_ResidualSplit ==
  Built /\ pc # "done" =>
    LET I == DOMAIN train
        R == DOMAIN train_reviews
    IN  /\ \A u \in DOMAIN voter_bias :
             LET X == {i \in I : train[i].voter = u}
             IN  Vanishes(RSum([i \in I |->
                            RSub(RSub(train[i].vote, overall_mean),
                                 voter_bias[u])], X),
                          Cardinality(X))
        /\ \A a \in DOMAIN author_bias :
             LET X == {r \in R : train_reviews[r].author = a}
             IN  Vanishes(RSum([r \in R |->
                            RSub(RSub(train_reviews[r].rating, rating_avg),
                                 author_bias[a])], X),
                          Cardinality(X))
        /\ \A q \in DOMAIN product_bias :
             LET X == {r \in R : train_reviews[r].product = q}
             IN  Vanishes(RSum([r \in R |->
                            RSub(RSub(RSub(train_reviews[r].rating, rating_avg),
                                      author_bias[train_reviews[r].author]),
                                 product_bias[q])], X),
                          Cardinality(X))

\* fit is over for a voter with two different votes and a product reviewed
\* by two authors of non-zero bias, the product bias being non-zero too
C11_Witness ==
  /\ Built /\ pc = "fitted"
  /\ \E i, j \in DOMAIN train :
       train[i].voter = train[j].voter /\ train[i].vote # train[j].vote
  /\ \E q \in DOMAIN product_bias :
       /\ product_bias[q] # Zero
       /\ \E r, t \in DOMAIN train_reviews :
            /\ train_reviews[r].product = q /\ train_reviews[t].product = q
            /\ train_reviews[r].author # train_reviews[t].author
            /\ author_bias[train_reviews[r].author] # Zero
            /\ author_bias[train_reviews[t].author] # Zero

(***************************************************************************)
(* The entities that have a bias.                                          *)
(***************************************************************************)
\* the authors and the products a training vote refers to, directly or
\* through the review it is cast on
VotedAuthors ==
  {train[i].author : i \in DOMAIN train}
    \cup {train_reviews[r].author : r \in VotedIds(train)}
VotedProducts == {train_reviews[r].product : r \in VotedIds(train)}

\* C12 as stated: only entities of the training set have a bias, whatever
\* lookup fit is given: the keys of voter_bias are the training voters, the
\* keys of review_bias the reviews voted on, and author_bias and
\* product_bias have no key that no training vote refers to.
C12_Original ==
  Built /\ pc # "done" =>
    /\ DOMAIN voter_bias = Voters(train)
    /\ DOMAIN review_bias = VotedIds(train)
    /\ DOMAIN author_bias \subseteq VotedAuthors
    /\ DOMAIN product_bias \subseteq VotedProducts

\* C12: the keys of voter_bias are the training voters and the keys of
\* review_bias the reviews voted on in training; the keys of author_bias and
\* product_bias are the authors and the products of the reviews of the lookup
\* given to fit, so they are entities of the training votes when that lookup
\* holds the voted reviews only.
C12_BiasKeys ==
  Built /\ pc # "done" =>
    /\ DOMAIN voter_bias = Voters(train)
    /\ DOMAIN review_bias = VotedIds(train)
    /\ DOMAIN author_bias =
         {train_reviews[r].author : r \in DOMAIN train_reviews}
    /\ DOMAIN product_bias =
         {train_reviews[r].product : r \in DOMAIN train_reviews}
    /\ DOMAIN train_reviews = VotedIds(train) =>
         /\ DOMAIN author_bias \subseteq VotedAuthors
         /\ DOMAIN product_bias = VotedProducts

\* fit is over on a lookup with a review nobody voted on, whose author has a
\* bias and no row in the author factors
C12_Witness ==
  /\ Built /\ pc = "fitted"
  /\ DOMAIN train_reviews # VotedIds(train)
  /\ \E a \in DOMAIN author_bias : a \notin DOMAIN author_map

(***************************************************************************)
(* What the epoch loop leaves alone.                                       *)
(***************************************************************************)
InLoop == pc \in {"epoch", "vote_pass", "rating_pass", "regularize", "objective"}

\* C13: in static bias mode the biases are held fixed during optimization:
\* no step of the epoch loop changes voter_bias, review_bias, author_bias,
\* product_bias, overall_mean or rating_avg, which have at the end of every
\* epoch and at the end of fit the values computed before the loop; in
\* either mode no step of the loop changes review_bias and the two means.
C13_StaticBias ==
  /\ [][InLoop =>
         /\ UNCHANGED << review_bias, overall_mean, rating_avg >>
         /\ globals.BIAS = "s" =>
              UNCHANGED << voter_bias, author_bias, product_bias >>]_vars
  /\ [](Built /\ pc \in {"epoch", "fitted"} =>
         /\ overall_mean = OverallMean(train)
         /\ rating_avg = RatingAvg(train_reviews)
         /\ review_bias =
              ReviewBias(train, overall_mean, VoterBias(train, overall_mean))
         /\ globals.BIAS = "s" =>
              /\ voter_bias = VoterBias(train, overall_mean)
              /\ author_bias = AuthorBias(train_reviews, rating_avg)
              /\ product_bias =
                   ProductBias(train_reviews, rating_avg, author_bias))

\* static mode with a positive regularization: fit is over after two or more
\* epochs that moved the factors, and there are biases that are not zero
C13_Witness ==
  /\ Built /\ pc = "fitted" /\ epochs >= 2
  /\ globals.BIAS = "s" /\ globals.BETA # Zero
  /\ V # Matrix(seed, 1, Cardinality(Voters(train)), globals.K)
  /\ \E u \in DOMAIN voter_bias : voter_bias[u] # Zero
  /\ \E a \in DOMAIN author_bias : author_bias[a] # Zero
  /\ \E q \in DOMAIN product_bias : product_bias[q] # Zero

\* C14: fit leaves the caller's data and the entity maps alone: a step of
\* fit changes neither the caller's vote list (its order and its elements)
\* nor the review lookup and its records, a step of the epoch loop changes
\* nothing of the model but V, A, P, S and the voter, author and product
\* biases, and once built voter_map, author_map and product_map are never
\* modified or resized.
C14_FitFrame ==
  [][/\ pc = "fit" \/ InLoop => UNCHANGED << train, train_reviews >>
     /\ InLoop => UNCHANGED << review_bias, overall_mean, rating_avg, globals >>
     /\ Built => UNCHANGED << voter_map, author_map, product_map >>]_vars

\* fit is over after an epoch on two votes which it went through in the
\* order opposite to the caller's
C14_Witness ==
  /\ pc = "fitted" /\ epochs >= 1
  /\ Len(train) = 2
  /\ votes = << train[2], train[1] >>
  /\ train[1] # train[2]

(***************************************************************************)
(* Properties of the tensor scorer.                                        *)
(***************************************************************************)
\* the whole number a factor entry stands for
Whole(x) == x \div UNIT

\* sum over x, y, z in [0,K) of S[x,y,z] * V[v,x] * A[a,y] * P[p,z]
TrilinearForm(v, a, p) ==
  LET T == Dims(globals.K) \X Dims(globals.K) \X Dims(globals.K)
  IN  IntR(RSum([t \in T |->
                   Whole(S[t[1]][t[2]][t[3]]) * Whole(V[v][t[1]])
                     * Whole(A[a][t[2]]) * Whole(P[p][t[3]])], T))

\* the change was made to the row the call reads of the matrix changed
OnCalledRow ==
  \/ call.change.m = "V" /\ call.change.row = call.v
  \/ call.change.m = "A" /\ call.change.row = call.a
  \/ call.change.m = "P" /\ call.change.row = call.p

\* C15: tensor_dot(v,a,p) is the trilinear form sum of S[x,y,z] * V[v,x] *
\* A[a,y] * P[p,z], and it is multilinear for every K: doubling every entry
\* of one of the rows V[v], A[a], P[p] with the two others fixed doubles
\* the score (and doubling another row leaves it as it was).
C15_Multilinear ==
  call # None /\ call.fn = "tensor_dot" =>
    /\ pc \in {"called", "recalled"} =>
         ret[Len(ret)] = TrilinearForm(call.v, call.a, call.p)
    /\ pc = "recalled" /\ call.change.kind = "double" =>
         ret[2] = IF OnCalledRow THEN RAdd(ret[1], ret[1]) ELSE ret[1]

\* the score of a model of two latent dimensions was not zero and has
\* doubled with the author row of the call
C15_Witness ==
  /\ pc = "recalled" /\ globals.K = 2
  /\ call.fn = "tensor_dot"
  /\ call.change = [kind |-> "double", m |-> "A", row |-> call.a]
  /\ ret[1] # Zero
  /\ ret[2] = RAdd(ret[1], ret[1])

\* C16: the derivative functions return the partial derivatives of
\* tensor_dot: when V[v,d] is increased by 1 the score tensor_dot(v,a,p)
\* changes by tensor_dot_der_v(a,p)[d], and likewise for A[a,d] with
\* tensor_dot_der_a(v,p)[d], P[p,d] with tensor_dot_der_p(v,a)[d] and
\* S[x,y,z] with tensor_dot_der_s(v,a,p)[x,y,z]; each result has one entry
\* per factor dimension and does not depend on the array differentiated.
C16_Derivatives ==
  pc = "recalled" =>
    LET F == Factors
        k == globals.K
        ch == call.change
        grown == RSub(ret[2], ret[1])
    IN  /\ call.fn = "tensor_dot" /\ ch.kind = "bump" =>
             CASE ch.m = "S" ->
                    grown = tensor_dot_der_s(F, k, call.v, call.a, call.p)
                              [ch.x][ch.y][ch.z]
               [] ch.m = "V" /\ ch.row = call.v ->
                    grown = tensor_dot_der_v(F, k, call.a, call.p)[ch.d]
               [] ch.m = "A" /\ ch.row = call.a ->
                    grown = tensor_dot_der_a(F, k, call.v, call.p)[ch.d]
               [] ch.m = "P" /\ ch.row = call.p ->
                    grown = tensor_dot_der_p(F, k, call.v, call.a)[ch.d]
               [] OTHER -> grown = Zero
        /\ call.fn \in {"tensor_dot_der_v", "tensor_dot_der_a",
                         "tensor_dot_der_p"} =>
             /\ DOMAIN ret[2] = Dims(k)
             /\ ch.kind # "none" /\ call.fn = "tensor_dot_der_v" /\ ch.m = "V"
                  => ret[2] = ret[1]
             /\ ch.kind # "none" /\ call.fn = "tensor_dot_der_a" /\ ch.m = "A"
                  => ret[2] = ret[1]
             /\ ch.kind # "none" /\ call.fn = "tensor_dot_der_p" /\ ch.m = "P"
                  => ret[2] = ret[1]
        /\ call.fn = "tensor_dot_der_s" =>
             /\ DOMAIN ret[2] = Dims(k)
             /\ \A x \in Dims(k) :
                  /\ DOMAIN ret[2][x] = Dims(k)
                  /\ \A y \in Dims(k) : DOMAIN ret[2][x][y] = Dims(k)
             /\ ch.kind # "none" /\ ch.m = "S" => ret[2] = ret[1]

\* an entry of the author row of the call was increased by 1 in a model of
\* two latent dimensions, and the score moved
C16_Witness ==
  /\ pc = "recalled" /\ globals.K = 2
  /\ call.fn = "tensor_dot"
  /\ call.change.kind = "bump" /\ call.change.m = "A"
  /\ call.change.row = call.a /\ call.change.d = 1
  /\ ret[2] # ret[1]

\* C17: tensor_dot and the derivative functions are pure functions of the
\* factor state: a call changes no entry of V, A, P, S and no other field
\* of the model, and a call repeated with no change of the factors in
\* between returns what the first call returned.
C17_Pure ==
  [][pc = "scorer" \/ pc' = "recalled" =>
       /\ UNCHANGED << V, A, P, S, globals, scorerFrame >>
       /\ pc = "called" => ret'[2] = ret[1]]_vars

\* tensor_dot_der_s was called twice in a row in a model of two latent
\* dimensions and returned an array that is not zero
C17_Witness ==
  /\ pc = "recalled" /\ globals.K = 2
  /\ call.fn = "tensor_dot_der_s" /\ call.change.kind = "none"
  /\ ret[1] # S
  /\ \E x, y, z \in Dims(2) : ret[2][x][y][z] # Zero

(***************************************************************************)
(* Properties of split_votes.                                              *)
(***************************************************************************)
\* C18: split_votes sorts the votes by review date and returns the first
\* half of the sorted order, ceil(n/2) votes, as the train set and the other
\* votes as the test set: the two sets partition the input and no test vote
\* is dated earlier than a train vote.
C18_SplitChronological ==
  pc = "split" =>
    LET list == call.votes
        tr == ret[1]
        te == ret[2]
        Set(q) == {q[i] : i \in DOMAIN q}
    IN  /\ Len(tr) = HalfUp(Len(list))
        /\ Len(tr) + Len(te) = Len(list)
        /\ Set(tr) \cup Set(te) = Set(list)
        /\ Set(tr) \cap Set(te) = {}
        /\ \A i \in DOMAIN tr, j \in DOMAIN te :
             strptime(tr[i].date) <= strptime(te[j].date)

(***************************************************************************)
(* The learning rate and the order of the passes.                          *)
(***************************************************************************)
\* an epoch is under way: the head of the loop has set its learning rate
InEpoch == pc \in {"vote_pass", "rating_pass", "regularize", "objective"}

\* C19: the learning rate of epoch it is alpha_0 / sqrt(it+1), derived from
\* the base rate alpha_0 and not from the rate of the epoch before (to
\* within two units of the last place, for the roundings of the root and of
\* the quotient).
C19_LearningRate ==
  InEpoch => Abs(RSub(alpha, RDiv(globals.ALPHA, sqrt(it + 1)))) <= 2

\* C20: at the start of every epoch fit reshuffles the vote list and the
\* list of distinct reviews, so each epoch goes through them in a fresh
\* random order: while epoch it runs, each of the two lists has been
\* shuffled it+1 times or more.
C20_ReshuffleEachEpoch ==
  InEpoch => shuffles >= 2 * (it + 1)

(***************************************************************************)
(* Properties of the passes of an epoch.                                   *)
(***************************************************************************)
\* the vote the vote pass is at, its three indices, and error * der_sig of
\* its prediction on the factors as they are
AtVote == votes[idx]
AtV == voter_map[AtVote.voter]
AtA == author_map[AtVote.author]
AtP == product_map[train_reviews[AtVote.review].product]
VoteGrad ==
  LET prd == VotePred(Factors, globals.K, AtVote, train_reviews)
  IN  RMul(RSub(sigmoid(prd), AtVote.vote), sigmoid_der1(prd))

\* C21: the four updates made for one vote are all computed from the factors
\* as they stood before any of them is written: the new V[v], A[a], P[p] and
\* S are the old ones minus alpha * error * der_sig times the derivative
\* taken on the old V, A, P, S, with error and der_sig taken once on the old
\* factors; the other rows stay as they were.
C21_PreUpdateValues ==
  [][pc = "vote_pass" =>
       LET F == Factors
           k == globals.K
           g == VoteGrad
           der_s == tensor_dot_der_s(F, k, AtV, AtA, AtP)
       IN  /\ V' = [V EXCEPT ![AtV] =
                      RowStep(V[AtV], alpha, g,
                              tensor_dot_der_v(F, k, AtA, AtP))]
           /\ A' = [A EXCEPT ![AtA] =
                      RowStep(A[AtA], alpha, g,
                              tensor_dot_der_a(F, k, AtV, AtP))]
           /\ P' = [P EXCEPT ![AtP] =
                      RowStep(P[AtP], alpha, g,
                              tensor_dot_der_p(F, k, AtV, AtA))]
           /\ \A x, y, z \in Dims(k) :
                S'[x][y][z] =
                  RSub(S[x][y][z], RMul(alpha, RMul(g, der_s[x][y][z])))]_vars

\* the first vote of the first epoch has been processed and has moved all
\* four factor arrays
C21_Witness ==
  /\ it = 0 /\ Len(votes) = 2
  /\ pc = "vote_pass" /\ idx = 2
  /\ V # Matrix(seed, 1, Cardinality(Voters(train)), globals.K)
  /\ A # Matrix(seed, 2, Cardinality(Authors(train)), globals.K)
  /\ P # Matrix(seed, 3, Cardinality(Products(train, train_reviews)), globals.K)
  /\ S # Tensor(seed, globals.K)

\* every entry of the factors decayed at the rate al
Decayed(al) ==
  /\ V' = [i \in DOMAIN V |-> [d \in DOMAIN V[i] |->
             Decay(al, globals.BETA, V[i][d])]]
  /\ A' = [i \in DOMAIN A |-> [d \in DOMAIN A[i] |->
             Decay(al, globals.BETA, A[i][d])]]
  /\ P' = [i \in DOMAIN P |-> [d \in DOMAIN P[i] |->
             Decay(al, globals.BETA, P[i][d])]]
  /\ S' = [x \in DOMAIN S |-> [y \in DOMAIN S[x] |-> [z \in DOMAIN S[x][y] |->
             Decay(al, globals.BETA, S[x][y][z])]]]

\* the decay step comes once in an epoch, after the rating pass, which
\* follows the vote pass, and the objective is computed right after it
DecayInTurn ==
  /\ pc # "regularize" /\ pc' = "regularize" => pc = "rating_pass"
  /\ pc # "rating_pass" /\ pc' = "rating_pass" => pc = "vote_pass"
  /\ pc = "regularize" => pc' = "objective"
  /\ pc # "objective" /\ pc' = "objective" => pc = "regularize"
  /\ pc = "objective" => pc' \in {"epoch", "fitted"}

\* C22: in every epoch the decay is applied exactly once, after the vote
\* pass and the rating pass and before the objective is computed: each
\* entry x of V, A, P and S becomes x - alpha_it * beta * x, alpha_it being
\* alpha_0 / sqrt(it+1); with beta = 0 the step changes no factor.
C22_DecayOncePerEpoch ==
  [][/\ DecayInTurn
     /\ pc = "regularize" =>
          /\ Decayed(RDiv(globals.ALPHA, sqrt(it + 1)))
          /\ globals.BETA = Zero => UNCHANGED << V, A, P, S >>]_vars

(***************************************************************************)
(* The objective.                                                          *)
(***************************************************************************)
\* the objective has just been computed on the factors of this state
ObjectiveFresh == pc \in {"epoch", "fitted"} /\ epochs >= 1

\* Q: the sum of the squares of every entry of V, A, P and S, and of every
\* voter, author and product bias when _UPDATE_BIAS is set
SumOfSquares ==
  LET sq(f) == RSum([e \in DOMAIN f |-> RSq(f[e])], DOMAIN f)
      rows(M) == RSum([i \in DOMAIN M |-> sq(M[i])], DOMAIN M)
      T == Dims(globals.K) \X Dims(globals.K) \X Dims(globals.K)
      core == RSum([t \in T |-> RSq(S[t[1]][t[2]][t[3]])], T)
      bias == IF globals.UPDATE_BIAS
              THEN RAdd(RAdd(sq(voter_bias), sq(author_bias)), sq(product_bias))
              ELSE Zero
  IN  RAdd(RAdd(RAdd(RAdd(rows(V), rows(A)), rows(P)), core), bias)

\* the number of squares in Q, each of which is rounded once
NumSquares ==
  Cardinality(DOMAIN V) * globals.K + Cardinality(DOMAIN A) * globals.K
    + Cardinality(DOMAIN P) * globals.K + globals.K * globals.K * globals.K
    + Cardinality(DOMAIN voter_bias) + Cardinality(DOMAIN author_bias)
    + Cardinality(DOMAIN product_bias)

\* x and y are equal up to the roundings of the squares, of the product by
\* beta and of the halving
Near(x, y) == Abs(RSub(x, y)) <= NumSquares + 2

\* C23 as stated: the objective is SSE + (beta/2) * Q, the squared errors of
\* all votes and all distinct reviews on the current factors carrying
\* weight 1.
C23_Original ==
  ObjectiveFresh =>
    Near(value,
         RAdd(SSE(Factors, globals.K),
              RMul(RDiv(globals.BETA, IntR(2)), SumOfSquares)))

\* C23: the objective used for the convergence check is (SSE + beta * Q) / 2,
\* SSE being the squared errors of all training votes and all distinct
\* training reviews recomputed on the current factors and Q the sum of
\* squares of every entry of V, A, P, S (and of every voter, author and
\* product bias when _UPDATE_BIAS is set): the SSE term carries weight 1/2.
C23_Objective ==
  ObjectiveFresh =>
    Near(RAdd(value, value),
         RAdd(SSE(Factors, globals.K), RMul(globals.BETA, SumOfSquares)))

\* an epoch has ended with squared errors and a penalty that both count
C23_Witness ==
  /\ ObjectiveFresh /\ pc = "epoch"
  /\ Len(votes) = 2
  /\ SSE(Factors, globals.K) > 20 * (NumSquares + 2)
  /\ RMul(globals.BETA, SumOfSquares) > 20 * (NumSquares + 2)

\* C24: in the rating pass the step for one review with author index a and
\* product index p changes only the rows A[a] and P[p], both from the rows
\* as they were: the new A[a] is A[a] - alpha * error * der_sig * P[p] and
\* the new P[p] is P[p] - alpha * error * der_sig * A[a] with the old A[a];
\* V, S, the other rows of A and P and all the biases stay as they were.
C24_RatingStepFrame ==
  [][pc = "rating_pass" /\ RatingKeysOk(reviews[idx]) =>
       LET review == reviews[idx]
           a == author_map[review.author]
           p == product_map[review.product]
           prd == RAdd(RAdd(RAdd(rating_avg, author_bias[review.author]),
                            product_bias[review.product]),
                       Dot(Factors, globals.K, a, p))
           g == RMul(RSub(sigmoid(prd), review.rating), sigmoid_der1(prd))
       IN  /\ A' = [A EXCEPT ![a] = RowStep(A[a], alpha, g, P[p])]
           /\ P' = [P EXCEPT ![p] = RowStep(P[p], alpha, g, A[a])]
           /\ UNCHANGED << V, S, voter_bias, review_bias, author_bias,
                           product_bias, rating_avg, overall_mean >>]_vars

\* the rating pass of the first epoch is over: it went through two reviews
\* of different authors and products
C24_Witness ==
  /\ pc = "regularize" /\ it = 0
  /\ Len(reviews) = 2
  /\ reviews[1].author # reviews[2].author
  /\ reviews[1].product # reviews[2].product
  /\ Cardinality(DOMAIN A) = 2 /\ Cardinality(DOMAIN P) = 2

\* the step of a pass is at position idx of its list and moves on by one,
\* to the next pass after the last position
PassStep(here, list, next) ==
  pc = here =>
    /\ idx \in 1..Len(list)
    /\ IF idx < Len(list) THEN pc' = here /\ idx' = idx + 1
                           ELSE pc' = next /\ idx' = 1

\* C25: every epoch is one full pass: the vote pass processes each training
\* vote exactly once (two votes on one review are both processed), the
\* rating pass processes exactly once each distinct review some training
\* vote is cast on, however many votes it has, and no review of the lookup
\* that no training vote is cast on.  (An epoch is a pass that runs to its
\* end: a step that ends fit with an exception ends no epoch.)
C25_FullPass ==
  /\ [](Built /\ pc # "done" =>
         /\ votes \in Perms(train)
         /\ Len(reviews) = Cardinality(VotedIds(train))
         /\ {reviews[i] : i \in DOMAIN reviews}
              = {train_reviews[r] : r \in VotedIds(train)})
  /\ [][/\ InLoop => UNCHANGED << votes, reviews >>
        /\ pc = "epoch" /\ pc' # "fitted" => pc' = "vote_pass" /\ idx' = 1
        /\ PassStep("vote_pass", votes, "rating_pass")
        /\ pc = "vote_pass" =>
             Factors' = VoteUpdate(Factors, globals.K, alpha, votes[idx],
                                   train_reviews)
        /\ pc' # "aborted" => PassStep("rating_pass", reviews, "regularize")
        /\ pc = "rating_pass" /\ pc' # "aborted" =>
             Factors' = RatingUpdate(Factors, globals.K, alpha, reviews[idx])
        /\ pc = "rating_pass" /\ pc' = "aborted" =>
             epochs' = epochs /\ UNCHANGED << V, A, P, S >>
       ]_vars

\* the passes of the second epoch are over: two votes on one review, in a
\* lookup that holds reviews nobody voted on
C25_Witness ==
  /\ pc = "regularize" /\ it = 1
  /\ Len(votes) = 2 /\ Len(reviews) = 1
  /\ votes[1].review = votes[2].review
  /\ Cardinality(DOMAIN train_reviews) = 3

\* C26: when every vote's review id is in the lookup, every entity lookup
\* made during the epochs succeeds: the author and the product recorded in
\* each review the rating pass and the objective go through are keys of
\* author_map and product_map, and the indices they give are rows of A and
\* of P.
C26_LookupsSucceed ==
  Built /\ ~MissingReview(train, train_reviews) =>
    \A i \in DOMAIN reviews :
      /\ reviews[i].author \in DOMAIN author_map
      /\ reviews[i].product \in DOMAIN product_map
      /\ author_map[reviews[i].author] \in DOMAIN A
      /\ product_map[reviews[i].product] \in DOMAIN P

(***************************************************************************)
(* The first epoch never converges.                                        *)
(***************************************************************************)
\* C27: the convergence test cannot succeed in epoch 0, the previous
\* objective being +infinity there: whatever the tolerance, the step that
\* ends epoch 0 goes on to epoch 1, a fit that stops as converged has run
\* two epochs or more, and a fit that ends with max_iterations >= 2 has run
\* two epochs or more.
C27_NoConvergenceAtFirst ==
  /\ [][pc = "objective" /\ it = 0 =>
          /\ previous = INF
          /\ pc' = "epoch" /\ it' = 1 /\ fit_state' = "ITERATING"
          /\ previous' = value']_vars
  /\ [](/\ fit_state = "CONVERGED" => epochs >= 2 /\ it >= 1
        /\ FitOver /\ globals.ITER >= 2 => epochs >= 2)

\* fit stopped as converged after its second epoch under a tolerance, 2,
\* larger than the objective itself
C27_Witness ==
  /\ fit_state = "CONVERGED" /\ epochs = 2 /\ it = 1
  /\ globals.TOL = <<2, 1>>
  /\ value < IntR(2)

(***************************************************************************)
(* Properties of the bias correction.                                      *)
(***************************************************************************)
\* the instance has no bias entry for any of the targeted entity types
ColdStart(instance, bias, targets) ==
  \A t \in DOMAIN targets :
    EntityOf(instance, targets[t]) \notin DOMAIN bias[targets[t]]

\* C28: adjust_bias undoes remove_bias on the same instances: called with the
\* bias and the truth remove_bias returned, with the same ids and target
\* code, it returns the truth remove_bias was given, element by element; it
\* leaves its argument res as it was; and it raises nothing, adding for an
\* instance whose entities have no bias entry the global average only.
C28_RemoveAdjustInverse ==
  [][pc = "adjusting" =>
       LET targets == parse_target(call.target_code)
           truth == call.removed.truth
       IN  /\ pc' = "adjusted"
           /\ call'.res = call.res
           /\ call.ids = call.removed.ids /\ call.res = ret[2] =>
                 ret' = [i \in DOMAIN truth |-> IntR(truth[i])]
           /\ \A i \in DOMAIN call.ids :
                 ColdStart(call.ids[i], call.bias, targets) =>
                   ret'[i] = RAdd(call.res[i], call.bias["avg"])]_vars

\* adjust_bias has returned the truth of two instances with different votes,
\* from which remove_bias had taken the biases of author and voter
C28_Witness ==
  /\ pc = "adjusted" /\ call.fn = "adjust_bias"
  /\ call.ids = call.removed.ids /\ Len(call.ids) = 2
  /\ call.target_code = << "a", "v" >>
  /\ call.res = update_truth(call.ids, call.removed.truth,
                            parse_target(call.target_code), call.bias)
  /\ call.removed.truth = << 3, 5 >>
  /\ ret = << IntR(3), IntR(5) >>
  /\ \A i \in DOMAIN ret : ret[i] # call.res[i]

(***************************************************************************)
(* Properties of the RankSVM data files.                                   *)
(***************************************************************************)
\* C29: output_model writes the instances in the order of their query ids
\* and returns the index it used (line k of the file is instance index[k]);
\* after the scores are read back and picked through that index, pred[i] is
\* the score of the i-th instance of the list as it was given, for every i.
C29_PredAligned ==
  /\ pc \in {"written", "classified", "aligned"} =>
       /\ DOMAIN ret.index = DOMAIN call.X
       /\ {ret.index[k] : k \in DOMAIN ret.index} = DOMAIN call.X
       /\ \A k \in DOMAIN ret.index :
            /\ ret.outfile[k].features = call.X[ret.index[k]]
            /\ ret.outfile[k].qid = call.qid[ret.index[k]]
       /\ \A j, k \in DOMAIN ret.outfile :
            j < k => ret.outfile[j].qid <= ret.outfile[k].qid
  /\ pc = "aligned" =>
       \A i \in DOMAIN call.X : ret.pred[i] = IntR(call.w * call.X[i])

(***************************************************************************)
(* Properties of newton_raphson.                                           *)
(***************************************************************************)
\* the largest number of updates the claim allows
MostUpdates == IF call.n_iter > 1 THEN call.n_iter ELSE 1

\* C30: newton_raphson returns in every run; when it does it has updated
\* theta at least once and at most max(1, n_iter) times, with one evaluation
\* of fun and one of der for every update; it leaves the loop before n_iter
\* updates exactly when the iterate is within eps of the zero vector; and it
\* returns the last iterate it computed.
C30_NewtonTerminates ==
  /\ <>(pc = "returned")
  /\ [](pc \in {"while", "returned"} =>
          /\ locals.i >= 1 /\ locals.i <= MostUpdates
          /\ locals.fun_calls = locals.i /\ locals.der_calls = locals.i
          /\ locals.theta_n =
                update(locals.theta_0, call.variable_group, call.step))
  /\ [](pc = "returned" =>
          /\ ret = locals.theta_n
          /\ locals.i < MostUpdates => allclose(ret, call.eps))
  /\ [][pc = "while" =>
          IF locals.i >= call.n_iter \/ allclose(locals.theta_n, call.eps)
            THEN pc' = "returned" /\ locals' = locals
            ELSE /\ pc' = "while"
                 /\ locals'.i = locals.i + 1
                 /\ locals'.theta_0 = locals.theta_n]_vars

\* the loop was left after two updates of three allowed: the second iterate,
\* unlike the first, is within eps of zero
C30_Witness ==
  /\ pc = "returned" /\ call.n_iter = 3 /\ locals.i = 2
  /\ locals.fun_calls = 2 /\ locals.der_calls = 2
  /\ ~allclose(locals.theta_0, call.eps)
  /\ allclose(ret, call.eps)
  /\ ret = << Rat(1, 4), Zero >>

====
